---- MODULE Spec2Model ----
(***************************************************************************)
(* Model of the capacity-factor pipeline of kfw_mastr: the capacity-factor *)
(* reducers (solar.calc_capacity_factor, WindCalc.calc_capacity_factor_wind)*)
(* the per-year batch commit loop (calculate_cf_wind, calculate_cf_solar),  *)
(* save_and_commit / save_to_db / batch_update, and the leap-year handling  *)
(* of the pre-computed solar angles.                                        *)
(*                                                                         *)
(* Numbers.  Every real number of the program (power, energy, capacity     *)
(* factor) is held as an integer count of 1/EU, EU = 10000 * CurtDen: a    *)
(* value rounded to 4 decimals is a multiple of CurtDen, an integer is a   *)
(* multiple of EU.  A curtailment multiplier is a count of 1/CurtDen.      *)
(* NaN is the value NaN; Python's None is PyNone.                          *)
(*                                                                         *)
(* Time.  A series has HoursPerDay samples per calendar day, so a year has *)
(* 365 * HoursPerDay or 366 * HoursPerDay samples (the program's series    *)
(* are hourly: 8760 or 8784 samples).                                      *)
(***************************************************************************)
EXTENDS Integers, Sequences, FiniteSets, TLC

VARIABLES
    \* ---- configuration and environment of a run
    tech,              \* "wind" | "solar": which pipeline runs
    years,             \* the list YEARS handed to calculate_cf_*
    batch_size,        \* BATCH_SIZE
    conflict_action,   \* conflict policy handed to save_and_commit
    save_hourly,       \* os.getenv('SAVE_HOURLY_DATA') == 'True'
    curtailment_env,   \* the text of CURTAILMENT_WIND / CURTAILMENT_SOLAR
    outfile_postfix,   \* OUTFILE_POSTFIX of the run (tags every record)
    era5_rows,         \* number of rows of table unique_era5_coordinates
    mastr_units,       \* rows of Calculation_wind / Calculation_solar, in load order
    incremental,       \* LIMIT_MASTR_UNITS == "incremental"
    \* ---- the program's state
    pc,                \* position of the pipeline
    run_no,            \* number of the pipeline run in progress
    year_idx,          \* index into years of the year being processed
    unit_list,         \* mastr_unit_list_of_tuples: the units the run loaded
    unit_idx,          \* index of the next unit of mastr_unit_list_of_tuples
    curtailment,       \* result of get_curtailment
    angle_len,         \* length of every series of solar_angles_dict
    weather_year,      \* the year of the weather window in memory (0: none)
    angles_used,       \* length of the angle series last handed to solar_calculations
                       \* in the current year (0: none yet)
    updates_hourly,    \* buffer of hourly records
    updates_monthly,   \* buffer of monthly records
    updates_yearly,    \* buffer of yearly records
    results,           \* the three result tables: [h, m, y], each a set of rows
    last_flush,        \* rows handed to batch_update by the last step, per table
    error,             \* the exception that ended the run ("" when none)
    \* ---- history of the run, for the properties
    appended,          \* records appended to each buffer during the current year pass
    passed,            \* <<unit, year>> pairs of the year passes that ended without error
    modelled,          \* <<unit, year>> pairs for which the power model was invoked
    prev_run,          \* conflict policy, postfix and tables of the run before, if completed
    \* ---- the reducer's inputs (one unit, one year)
    power,             \* the raw power series of the power model
    net_capacity,      \* Nettonennleistung of the unit
    \* ---- batch_update, step by step
    bu_pc,             \* position inside batch_update / save_and_commit
    bu_table,          \* committed rows of the target table
    bu_work,           \* rows of the target table as the open transaction sees them
    bu_before,         \* rows of the target table when the flush started
    bu_temp,           \* tmp_update_data, committed and in the open transaction:
                       \* "absent" | "created" | "filled"
    bu_updates,        \* the caller's buffer
    bu_fail_at,        \* the statement at which the database raises ("" never)
    \* ---- aggregate(tech)
    calc_table,        \* rows of Calculation_{tech} left-joined with {tech}_extended
    results_yearly,    \* rows of results_{tech}_yearly
    agg_db,            \* the tables aggregate() creates, by name
    agg_pc,            \* position of aggregate()
    agg_lvl,           \* index of the aggregation level of the next loop iteration
    agg_run,           \* number of the aggregation run
    agg_prev,          \* agg_db when the run before completed
    agg_changed,       \* whether the inputs were edited since that run
    \* ---- export_to_csv
    ex_table,          \* rows of the result table, in the order the database scans them
    ex_mastr_ids,      \* EXPORT_UNITS: the unit IDs to export ({}: 'all')
    ex_year,           \* the year handed to export_to_csv
    export_batch_size, \* EXPORT_BATCH_SIZE
    query,             \* the rows the query selects
    current_offset,    \* offset of the next batch
    output_file,       \* the CSV file: whether it exists and its lines
    file_before,       \* the CSV file before the call
    fetched,           \* the offsets handed to fetch_batch so far
    ex_pc,             \* position of export_to_csv
    \* ---- WindCalc.get_power
    power_curve,       \* the turbine type's row of power_curve_df (W; NaN where empty)
    v_hh_norm,         \* normalised wind speed at hub height
    cut_off,           \* argument cut_off
    turbine_cut_off_wind_speed_flex,   \* argument of that name
    gp_result,         \* what the call returned
    gp_pc              \* position of the call

\* fixed during a behaviour
setup_vars == << tech, years, batch_size, save_hourly, curtailment_env, era5_rows,
                 mastr_units, incremental >>

\* chosen for each run
run_vars == << conflict_action, outfile_postfix >>

buffer_vars == << updates_hourly, updates_monthly, updates_yearly >>

history_vars == << appended, passed, modelled, prev_run >>

pipeline_vars == << run_no, year_idx, unit_idx, angle_len, angles_used, results,
                    last_flush, weather_year, unit_list >>

reducer_vars == << power, net_capacity >>

batch_vars == << bu_pc, bu_table, bu_work, bu_before, bu_temp, bu_updates, bu_fail_at >>

agg_vars == << calc_table, results_yearly, agg_db, agg_pc, agg_lvl, agg_run, agg_prev,
              agg_changed >>

export_vars == << ex_table, ex_mastr_ids, ex_year, export_batch_size, query,
                 current_offset, output_file, file_before, fetched, ex_pc >>

curve_vars == << power_curve, v_hh_norm, cut_off, turbine_cut_off_wind_speed_flex,
                gp_result, gp_pc >>

vars == << setup_vars, run_vars, pc, curtailment, error, buffer_vars, history_vars,
           pipeline_vars, reducer_vars, batch_vars, agg_vars, export_vars, curve_vars >>

-----------------------------------------------------------------------------
(* Bounds of the model *)

HoursPerDay == 1      \* samples per calendar day
CurtDen == 4          \* curtailment fractions are multiples of 1/CurtDen
PatLen == 2           \* a power series repeats a pattern of PatLen samples

-----------------------------------------------------------------------------
(* Numbers *)

NaN == -1
PyNone == -2

EU == 10000 * CurtDen

Min(a, b) == IF a < b THEN a ELSE b

RECURSIVE GCD(_, _)
GCD(a, b) == IF b = 0 THEN a ELSE GCD(b, a % b)

\* n / d rounded to the nearest integer, ties to the even one (numpy.round)
RoundHalfEven(n, d) ==
    LET q == n \div d
        r == n % d
    IN  IF 2 * r < d THEN q
        ELSE IF 2 * r > d THEN q + 1
        ELSE IF q % 2 = 0 THEN q ELSE q + 1

\* np.round(x, 4)
Round4(x) == IF x = NaN THEN NaN ELSE RoundHalfEven(x, CurtDen) * CurtDen

\* np.round(x, 0)
Round0(x) == IF x = NaN THEN NaN ELSE RoundHalfEven(x, EU) * EU

\* np.round(a / b, 4), a and b in the same unit
DivRound4(a, b) ==
    IF a = NaN THEN NaN
    ELSE LET g == GCD(10000, b)
         IN  RoundHalfEven(a * (10000 \div g), b \div g) * CurtDen

\* x * m for a multiplier m (count of 1/CurtDen); x is a multiple of CurtDen
TimesMult(x, m) == IF x = NaN THEN NaN ELSE (x \div CurtDen) * m

\* x * k for an integer k
TimesInt(x, k) == IF x = NaN THEN NaN ELSE x * k

\* np.nan_to_num(x, nan=0.0)
NanToNum(x) == IF x = NaN THEN 0 ELSE x

Plus(a, b) == IF a = NaN \/ b = NaN THEN NaN ELSE a + b

\* np.sum(s[lo..hi]) (1-based, inclusive); the empty sum is 0
RECURSIVE SumRange(_, _, _)
SumRange(s, lo, hi) ==
    IF lo > hi THEN 0
    ELSE IF lo = hi THEN s[lo]
    ELSE LET mid == (lo + hi) \div 2
         IN  Plus(SumRange(s, lo, mid), SumRange(s, mid + 1, hi))

\* np.mean(s[lo..hi]) rounded to 4 decimals; the mean of nothing is NaN
MeanRound4(s, lo, hi) ==
    IF lo > hi THEN NaN
    ELSE LET t == SumRange(s, lo, hi)
         IN  IF t = NaN THEN NaN
             ELSE RoundHalfEven(t, (hi - lo + 1) * CurtDen) * CurtDen

-----------------------------------------------------------------------------
(* helpers.py: compute_monthly_statistics, get_curtailment, create_results_dict *)

LeapSize == 366 * HoursPerDay       \* 8784 in the program
NonLeapSize == 365 * HoursPerDay    \* 8760 in the program

\* hours_in_months without the adjustment for a leap year
hours_in_months_unadjusted(size) ==
    [k \in 1..12 |->
        IF k = 2 THEN 28 * HoursPerDay
        ELSE IF k \in {4, 6, 9, 11} THEN 30 * HoursPerDay
        ELSE 31 * HoursPerDay]

\* hours_in_months, February adjusted when data.size == 8784
hours_in_months(size) ==
    [k \in 1..12 |->
        IF k = 2 THEN (IF size = LeapSize THEN 29 ELSE 28) * HoursPerDay
        ELSE IF k \in {4, 6, 9, 11} THEN 30 * HoursPerDay
        ELSE 31 * HoursPerDay]

\* start_idx of month k: the hours of the months before it
RECURSIVE month_start(_, _)
month_start(size, k) ==
    IF k = 1 THEN 0 ELSE month_start(size, k - 1) + hours_in_months(size)[k - 1]

\* data[start_idx:end_idx] of month k as 1-based inclusive bounds; Python's
\* slice stops at the end of data
month_lo(data, k) == month_start(Len(data), k) + 1
month_hi(data, k) ==
    Min(month_start(Len(data), k) + hours_in_months(Len(data))[k], Len(data))

\* np.round(compute_monthly_statistics(data, operation), 4): the 12 monthly
\* sums or means, with the rounding both callers apply
compute_monthly_statistics(data, operation) ==
    [k \in 1..12 |->
        IF operation = "sum"
        THEN Round4(SumRange(data, month_lo(data, k), month_hi(data, k)))
        ELSE MeanRound4(data, month_lo(data, k), month_hi(data, k))]

\* The text of a CURTAILMENT_* setting: "None", a number k / CurtDen, or text
\* that float() rejects.
CurtNone == [kind |-> "None", k |-> 0]
CurtNum(k) == [kind |-> "num", k |-> k]
CurtText == [kind |-> "text", k |-> 0]

\* get_curtailment: [raised |-> the exception ("" when none), value |-> result]
get_curtailment(env) ==
    IF env.kind = "None" THEN [raised |-> "", value |-> PyNone]
    ELSE IF env.kind = "num"
    THEN LET c == CurtDen - env.k          \* 1 - float(curtailment_env)
         IN  IF ~(0 <= c /\ c <= CurtDen)
             THEN [raised |-> "", value |-> PyNone]
             ELSE [raised |-> "", value |-> c]
    \* float() raises ValueError; the handler's message reads the local
    \* `curtailment`, which was never assigned
    ELSE [raised |-> "UnboundLocalError", value |-> PyNone]

\* Python's truth value of `curtailment`: None and 0.0 are false
Truthy(c) == c # PyNone /\ c # 0

NoReason == "<None>"
MissingCoordinates == "Missing AGS or other coordinates"

\* create_results_dict tagging the record with the number of the run, as a
\* time stamp would, instead of OUTFILE_POSTFIX
create_results_dict_stamped(mastrid, year, energy, cf, key_prefix, no_calc_reason) ==
    [EinheitMastrNummer |-> mastrid,
     year |-> year,
     energy |-> energy,
     cf |-> cf,
     key_prefix |-> key_prefix,
     outfile_postfix |-> run_no,
     no_calc_reason |-> no_calc_reason]

create_results_dict(mastrid, year, energy, cf, key_prefix, no_calc_reason) ==
    [EinheitMastrNummer |-> mastrid,
     year |-> year,
     energy |-> energy,
     cf |-> cf,
     key_prefix |-> key_prefix,
     outfile_postfix |-> outfile_postfix,
     no_calc_reason |-> no_calc_reason]

-----------------------------------------------------------------------------
(* solar.py: calc_capacity_factor;  wind.py: calc_capacity_factor_wind *)

\* p_mp of the reference module at 1000 W/m2, 25 C (W)
pvm_max_power == 200 * EU

\* The values the solar reducer computes for one unit and year: energy and
\* capacity factor of the hourly, the monthly and the yearly record
solar_values(pw, cap, curt) ==
    LET n == Len(pw)
        power_h_module ==
            IF Truthy(curt)
            THEN [h \in 1..n |-> TimesMult(Round4(pw[h]), curt)]
            ELSE [h \in 1..n |-> NanToNum(Round4(pw[h]))]
        cf_hourly == [h \in 1..n |-> DivRound4(power_h_module[h], pvm_max_power)]
        power_mastrid_hourly == [h \in 1..n |-> TimesInt(cf_hourly[h], cap)]
        power_sum_masterid_monthly == compute_monthly_statistics(power_mastrid_hourly, "sum")
        cf_ave_monthly == compute_monthly_statistics(cf_hourly, "mean")
        power_sum_mastrid_yearly == Round0(SumRange(power_mastrid_hourly, 1, n))
        cf_ave_yearly == MeanRound4(cf_hourly, 1, n)
    IN  \* power_mastrid_hourly = power_h_module.tolist() precedes the hourly record
        [h |-> [energy |-> power_h_module, cf |-> cf_hourly],
         m |-> [energy |-> power_sum_masterid_monthly, cf |-> cf_ave_monthly],
         y |-> [energy |-> power_sum_mastrid_yearly, cf |-> cf_ave_yearly]]

\* The values the wind reducer computes for one unit and year
wind_values(pw, max_power_power_curve, cap, curt) ==
    LET n == Len(pw)
        max_kw == max_power_power_curve \div 1000
        power_hourly ==
            IF Truthy(curt)
            THEN [h \in 1..n |-> TimesMult(Round4(pw[h]), curt)]
            ELSE [h \in 1..n |-> NanToNum(IF pw[h] = NaN THEN NaN
                                          ELSE Round4(pw[h]) \div 1000)]
        cf_hourly == [h \in 1..n |-> DivRound4(power_hourly[h], max_kw)]
        power_sum_mastrid_yearly == Round0(SumRange(power_hourly, 1, n))
        cf_ave_yearly == MeanRound4(cf_hourly, 1, n)
        power_sum_masterid_monthly == compute_monthly_statistics(power_hourly, "sum")
        cf_ave_monthly == compute_monthly_statistics(cf_hourly, "mean")
        power_mastrid_hourly == [h \in 1..n |-> TimesInt(cf_hourly[h], cap)]
    IN  [h |-> [energy |-> power_mastrid_hourly, cf |-> cf_hourly],
         m |-> [energy |-> power_sum_masterid_monthly, cf |-> cf_ave_monthly],
         y |-> [energy |-> power_sum_mastrid_yearly, cf |-> cf_ave_yearly]]

\* The create_results_dict calls that end both reducers
result_records(v, year, mastrid) ==
    [h |-> create_results_dict(mastrid, year, v.h.energy, v.h.cf, "h", NoReason),
     m |-> create_results_dict(mastrid, year, v.m.energy, v.m.cf, "m", NoReason),
     y |-> create_results_dict(mastrid, year, v.y.energy, v.y.cf, "y", NoReason)]

\* The three records the solar reducer builds for one unit and year
solar_records(pw, year, mastrid, cap, curt) ==
    result_records(solar_values(pw, cap, curt), year, mastrid)

\* The three records the wind reducer builds for one unit and year
wind_records(pw, max_power_power_curve, year, mastrid, cap, curt) ==
    result_records(wind_values(pw, max_power_power_curve, cap, curt), year, mastrid)

\* The appends without the SAVE_HOURLY_DATA guard of the hourly one
append_records_always(recs, um, uy, uh) ==
    CHOOSE out \in { << Append(uh, r.h), Append(um, r.m), Append(uy, r.y) >> :
                     r \in {recs} } : TRUE

\* The appends that end both reducers: <<updates_hourly, updates_monthly,
\* updates_yearly>> after the call
append_records(recs, um, uy, uh) ==
    CHOOSE out \in { << IF save_hourly THEN Append(uh, r.h) ELSE uh,
                        Append(um, r.m),
                        Append(uy, r.y) >> : r \in {recs} } : TRUE

calc_capacity_factor(pw, um, uy, uh, year, mastrid, cap, curt) ==
    append_records(solar_records(pw, year, mastrid, cap, curt), um, uy, uh)

calc_capacity_factor_wind(pw, max_power_power_curve, um, uy, uh, year, mastrid, cap, curt) ==
    append_records(wind_records(pw, max_power_power_curve, year, mastrid, cap, curt),
                   um, uy, uh)

-----------------------------------------------------------------------------
(* Inputs of the model *)

\* constants.LEAP_YEARS
LEAP_YEARS == {y \in 1900..2100 : y % 4 = 0 /\ (y % 100 # 0 \/ y % 400 = 0)}

\* Length of the weather window, and so of the power series, of a year
hours_of_year(year) == IF year \in LEAP_YEARS THEN LeapSize ELSE NonLeapSize

\* np.nanmax of the mapped turbine's power curve (W)
power_output_turbine_max == 2000 * EU

\* Raw power samples (W): a missing sample, no power, 40 W
Samples == {NaN, 0, 40 * EU}

\* The power series of hours_of_year(year) samples that repeats pattern pat
series_of(pat, year) ==
    [h \in 1..hours_of_year(year) |-> pat[((h - 1) % Len(pat)) + 1]]

Patterns == [1..PatLen -> Samples]

CurtEnvs == {CurtNone, CurtText} \cup {CurtNum(k) : k \in (0 - 1)..(CurtDen + 1)}

Caps == {1, 3}

\* State of the parts a specification does not use
NoTables == [h |-> {}, m |-> {}, y |-> {}]
NoFlush == [h |-> 0, m |-> 0, y |-> 0]
NoPrevRun == [completed |-> FALSE, conflict_action |-> "", outfile_postfix |-> 0,
              results |-> NoTables]

PipelineIdle ==
    /\ outfile_postfix = 1
    /\ era5_rows = 1
    /\ mastr_units = <<>>
    /\ incremental = FALSE
    /\ unit_list = <<>>
    /\ run_no = 1
    /\ year_idx = 1
    /\ unit_idx = 1
    /\ angle_len = LeapSize
    /\ weather_year = 0
    /\ angles_used = 0
    /\ results = NoTables
    /\ last_flush = NoFlush
    /\ appended = NoTables
    /\ passed = {}
    /\ modelled = {}
    /\ prev_run = NoPrevRun

NoTempTable == [committed |-> "absent", work |-> "absent"]

BatchIdle ==
    /\ bu_pc = "idle"
    /\ bu_table = {}
    /\ bu_work = {}
    /\ bu_before = {}
    /\ bu_temp = NoTempTable
    /\ bu_updates = <<>>
    /\ bu_fail_at = ""

ReducerIdle ==
    /\ power = <<>>
    /\ net_capacity = 0

\* A table that does not exist
NoTable == [exists |-> FALSE, rows |-> {}]

\* The aggregation levels of the loop of aggregate()
AggLevels == <<"ags", "plz", "bl">>

\* The database before the first aggregation run: no table of aggregate() exists
NoAggDb ==
    [all_res |-> NoTable, tab1 |-> NoTable, tmp_agg |-> NoTable,
     tmp_agg_year |-> NoTable, tmp_agg_act_year_cf |-> NoTable,
     tmp_agg_run_year_cf |-> NoTable,
     agg |-> [l \in 1..Len(AggLevels) |-> NoTable],
     agg_yr |-> [l \in 1..Len(AggLevels) |-> NoTable]]

\* No call of get_power has returned
NoPower == [kind |-> "none", power |-> 0, power_output_turbine_max |-> 0]

CurveIdle ==
    /\ power_curve = <<>>
    /\ v_hh_norm = 0
    /\ cut_off = FALSE
    /\ turbine_cut_off_wind_speed_flex = 1
    /\ gp_result = NoPower
    /\ gp_pc = "idle"

\* A CSV file that does not exist
NoFile == [exists |-> FALSE, lines |-> <<>>]

ExportIdle ==
    /\ ex_table = <<>>
    /\ ex_mastr_ids = {}
    /\ ex_year = 0
    /\ export_batch_size = 1
    /\ query = <<>>
    /\ current_offset = 0
    /\ output_file = NoFile
    /\ file_before = NoFile
    /\ fetched = <<>>
    /\ ex_pc = "idle"

AggIdle ==
    /\ calc_table = {}
    /\ results_yearly = {}
    /\ agg_db = NoAggDb
    /\ agg_pc = "idle"
    /\ agg_lvl = 1
    /\ agg_run = 1
    /\ agg_prev = [completed |-> FALSE, db |-> NoAggDb]
    /\ agg_changed = FALSE

-----------------------------------------------------------------------------
(* The reducers on one unit and one year: get_curtailment, then the reducer *)

ReducerInit ==
    /\ tech \in {"wind", "solar"}
    /\ years \in {<<2019>>, <<2020>>}
    /\ save_hourly \in BOOLEAN
    /\ curtailment_env \in CurtEnvs
    /\ \E pat \in Patterns : power = series_of(pat, years[1])
    /\ net_capacity \in Caps
    /\ batch_size = 1
    /\ conflict_action = "update"
    /\ pc = "get_curtailment"
    /\ curtailment = PyNone
    /\ updates_hourly = <<>>
    /\ updates_monthly = <<>>
    /\ updates_yearly = <<>>
    /\ error = ""
    /\ PipelineIdle
    /\ BatchIdle
    /\ AggIdle
    /\ ExportIdle
    /\ CurveIdle

\* curtailment = get_curtailment("CURTAILMENT_...")
R_GetCurtailment ==
    /\ pc = "get_curtailment"
    /\ LET r == get_curtailment(curtailment_env)
       IN  IF r.raised # ""
           THEN /\ error' = r.raised
                /\ pc' = "failed"
                /\ UNCHANGED curtailment
           ELSE /\ curtailment' = r.value
                /\ pc' = "reduce"
                /\ UNCHANGED error
    /\ UNCHANGED << curve_vars, export_vars, agg_vars, setup_vars, run_vars, buffer_vars, history_vars, pipeline_vars,
                    reducer_vars, batch_vars >>

\* The reducer of the technology on the unit's power series
reduce_unit(pw, um, uy, uh, year, mastrid, cap, curt) ==
    IF tech = "solar"
    THEN calc_capacity_factor(pw, um, uy, uh, year, mastrid, cap, curt)
    ELSE calc_capacity_factor_wind(pw, power_output_turbine_max, um, uy, uh,
                                   year, mastrid, cap, curt)

R_Reduce ==
    /\ pc = "reduce"
    /\ \E out \in {reduce_unit(power, updates_monthly, updates_yearly, updates_hourly,
                               years[1], "U1", net_capacity, curtailment)} :
           /\ updates_hourly' = out[1]
           /\ updates_monthly' = out[2]
           /\ updates_yearly' = out[3]
    /\ pc' = "reduced"
    /\ UNCHANGED << curve_vars, export_vars, agg_vars, setup_vars, run_vars, curtailment, error, history_vars,
                    pipeline_vars, reducer_vars, batch_vars >>

ReducerNext == R_GetCurtailment \/ R_Reduce

SpecReducer == ReducerInit /\ [][ReducerNext]_vars

\* The records of the unit of SpecReducer under curtailment multiplier curt
records_under(curt) ==
    IF tech = "solar"
    THEN solar_records(power, years[1], "U1", net_capacity, curt)
    ELSE wind_records(power, power_output_turbine_max, years[1], "U1", net_capacity, curt)

\* C1: for a curtailment fraction c = k/CurtDen in [0,1], every hourly energy
\* value of the record produced with curtailment equals the value produced
\* without curtailment times (1 - c).
C1_CurtailmentScalesHourlyEnergy ==
    (pc = "reduced" /\ curtailment_env.kind = "num"
        /\ curtailment_env.k \in 0..CurtDen)
    => LET with == records_under(curtailment).h.energy
           without == records_under(PyNone).h.energy
       IN  \A h \in 1..Len(power) :
              /\ with[h] # NaN
              /\ without[h] # NaN
              /\ with[h] * CurtDen = without[h] * (CurtDen - curtailment_env.k)

\* C3: the yearly energy is the sum over all hours of hourly capacity factor
\* times rated capacity, and each monthly energy the same sum over the month's
\* hours, up to the final rounding.
C3_EnergyIsCfTimesRatedCapacity ==
    (pc = "reduced")
    => LET cf == records_under(curtailment).h.cf
           scaled == [h \in 1..Len(cf) |-> TimesInt(cf[h], net_capacity)]
       IN  /\ updates_yearly[1].energy = Round0(SumRange(scaled, 1, Len(scaled)))
           /\ \A k \in 1..12 :
                 updates_monthly[1].energy[k]
                   = Round4(SumRange(scaled, month_lo(scaled, k), month_hi(scaled, k)))

\* C25: a NaN sample of the raw power series is replaced by zero before any
\* further step, with or without a curtailment multiplier, so no hourly,
\* monthly or yearly field of a produced record is NaN.
C25_NoRecordFieldIsNaN ==
    (pc = "reduced")
    => \E recs \in {records_under(curtailment)} :
          /\ \A h \in 1..Len(power) : recs.h.energy[h] # NaN /\ recs.h.cf[h] # NaN
          /\ \A k \in 1..12 : recs.m.energy[k] # NaN /\ recs.m.cf[k] # NaN
          /\ recs.y.energy # NaN
          /\ recs.y.cf # NaN
          /\ updates_yearly[1] = recs.y
          /\ updates_monthly[1] = recs.m

\* C26: the energy series of the hourly record equals, hour by hour, the
\* record's hourly capacity factor times the unit's rated capacity and has the
\* length of the capacity-factor series, and its sum, rounded, is the yearly
\* energy of the same unit and year.
C26_HourlyEnergyIsCfTimesRatedCapacity ==
    (pc = "reduced")
    => \E recs \in {records_under(curtailment)} :
          /\ Len(recs.h.energy) = Len(recs.h.cf)
          /\ Len(recs.h.cf) = hours_of_year(years[1])
          /\ \A h \in 1..Len(recs.h.cf) :
                recs.h.energy[h] = TimesInt(recs.h.cf[h], net_capacity)
          /\ recs.y.energy = Round0(SumRange(recs.h.energy, 1, Len(recs.h.energy)))

-----------------------------------------------------------------------------
(* session_funcs.py: batch_update, save_to_db, save_and_commit on the result  *)
(* tables.  A table is the set of its rows.                                  *)

\* id_cols of the result tables: ["EinheitMastrNummer", "year"]
key_of(row) == << row.EinheitMastrNummer, row.year >>

\* An INSERT of the row without ON CONFLICT clause and without unique key
on_conflict_blind(table, row, earlier, update_action) ==
    [raised |-> "", table |-> table \cup {row}]

\* page_size of psycopg2.extras.execute_values: the rows of one INSERT statement
page_size == 200

\* ON CONFLICT DO NOTHING under every policy
on_conflict_do_nothing(table, row, earlier, update_action) ==
    IF \E r \in table : key_of(r) = key_of(row)
    THEN [raised |-> "", table |-> table]
    ELSE [raised |-> "", table |-> table \cup {row}]

\* One row of INSERT ... VALUES under the ON CONFLICT clause of the policy.
\* earlier: the keys of the rows of the same statement before this one.
on_conflict(table, row, earlier, update_action) ==
    LET hit == {r \in table : key_of(r) = key_of(row)}
    IN  IF hit = {}
        THEN [raised |-> "", table |-> table \cup {row}]
        ELSE IF update_action = "skip_existing_row"
        THEN [raised |-> "", table |-> table]                   \* DO NOTHING
        ELSE IF key_of(row) \in earlier
        \* ON CONFLICT DO UPDATE cannot affect a row a second time
        THEN [raised |-> "CardinalityViolation", table |-> table]
        \* DO UPDATE SET every non-key column = EXCLUDED
        ELSE [raised |-> "", table |-> (table \ hit) \cup {row}]

\* execute_values(cursor, insert_query, data, page_size=200) on rows i.. of
\* updates: one INSERT statement per page, all in one transaction
RECURSIVE insert_values(_, _, _, _)
insert_values(table, updates, i, update_action) ==
    IF i > Len(updates) THEN [raised |-> "", table |-> table]
    ELSE CHOOSE out \in
           { IF r.raised # "" THEN r
             ELSE insert_values(r.table, updates, i + 1, update_action) :
             r \in {on_conflict(table, updates[i],
                                {key_of(updates[j]) :
                                   j \in {k \in 1..(i - 1) :
                                            (k - 1) \div page_size = (i - 1) \div page_size}},
                                update_action)} } : TRUE

\* batch_update under "skip_existing_row" / "update": the INSERT, then commit;
\* on an exception rollback and raise.  fails: the database raises.  Under
\* another policy than the three known ones insert_query is never assigned.
\* [raised |-> the exception ("" when none), table |-> the committed rows]
batch_update(table, updates, update_action, fails) ==
    IF update_action \notin {"skip_existing_row", "update"}
    THEN [raised |-> "UnboundLocalError", table |-> table]
    ELSE IF fails THEN [raised |-> "DatabaseError", table |-> table]
    ELSE CHOOSE out \in
           { IF r.raised # "" THEN [raised |-> r.raised, table |-> table] ELSE r :
             r \in {insert_values(table, updates, 1, update_action)} } : TRUE

\* The state save_and_commit works on: the three buffers, the three tables,
\* the rows handed to batch_update per table, and the exception raised so far
Stage(uh, um, uy, tables) ==
    [updates |-> [h |-> uh, m |-> um, y |-> uy],
     results |-> tables,
     flushed |-> NoFlush,
     raised |-> ""]

\* save_and_commit that flushes only a buffer that reached batch_size: the
\* call with batch_size=None does nothing
save_and_commit_threshold(st, update_action, g, bs, fail_at) ==
    IF st.raised # "" \/ bs = PyNone \/ Len(st.updates[g]) < bs THEN st
    ELSE CHOOSE out \in
           { IF r.raised # ""
             THEN [st EXCEPT !.raised = r.raised, !.flushed[g] = Len(st.updates[g])]
             ELSE [st EXCEPT !.results[g] = r.table, !.updates[g] = <<>>,
                             !.flushed[g] = Len(st.updates[g])] :
             r \in {batch_update(st.results[g], st.updates[g], update_action,
                                 fail_at = g)} } : TRUE

\* save_and_commit(session, updates, conflict_action, key, batch_size, table_id)
\* on the buffer and table of granularity g; bs = PyNone is batch_size=None.
\* Nothing runs after an exception.
save_and_commit(st, update_action, g, bs, fail_at) ==
    IF st.raised # "" THEN st
    ELSE IF bs = PyNone \/ Len(st.updates[g]) >= bs
    THEN IF st.updates[g] = <<>>
         THEN st                 \* save_to_db: `if update_list:`; clear; commit
         ELSE CHOOSE out \in
                { IF r.raised # ""
                  THEN [st EXCEPT !.raised = r.raised,
                                  !.flushed[g] = Len(st.updates[g])]
                  ELSE [st EXCEPT !.results[g] = r.table,
                                  !.updates[g] = <<>>,
                                  !.flushed[g] = Len(st.updates[g])] :
                  r \in {batch_update(st.results[g], st.updates[g], update_action,
                                      fail_at = g)} } : TRUE
    ELSE st

\* The three save_and_commit calls after a unit (wind) / update_db (solar):
\* hourly, monthly, yearly
update_db(st, update_action, bs, fail_at) ==
    CHOOSE out \in
      { save_and_commit(s2, update_action, "y", bs, fail_at) :
        s2 \in { save_and_commit(s1, update_action, "m", bs, fail_at) :
                 s1 \in {save_and_commit(st, update_action, "h", bs, fail_at)} } } : TRUE

-----------------------------------------------------------------------------
(* calculate_cf_wind.py, calculate_cf_solar.py: the pipeline *)

MaxUnits == 2         \* units in the catalogue
MaxBatch == 2         \* BATCH_SIZE is 1..MaxBatch
MaxYears == 2         \* length of the list of simulation years
MaxRuns == 2          \* pipeline runs in a behaviour
MaxPostfix == 2       \* OUTFILE_POSTFIX is 1..MaxPostfix

SimYears == {2019, 2020, 2021}

\* The lists of distinct simulation years of length 1..MaxYears
YearLists ==
    UNION { {l \in [1..n -> SimYears] : \A i, j \in 1..n : i # j => l[i] # l[j]} :
            n \in 1..MaxYears }

\* Where a unit's coordinates come from: its nearest-grid columns are set
\* ("grid"), they are null and the raw latitude and longitude are set ("raw"),
\* or they are null and a raw coordinate is null ("none")
CoordKinds == {"grid", "raw", "none"}

UnitNames == << "U1", "U2", "U3", "U4" >>

\* Nettonennleistung of the i-th unit of a catalogue
rated_capacity(i) == IF i % 2 = 1 THEN 1 ELSE 3

\* The catalogue whose unit i has the coordinates kinds[i]
catalogue(kinds) ==
    [i \in 1..Len(kinds) |->
        [EinheitMastrNummer |-> UnitNames[i],
         Nettonennleistung |-> rated_capacity(i),
         coords |-> kinds[i]]]

Catalogues == UNION { {catalogue(k) : k \in [1..n -> CoordKinds]} : n \in 0..MaxUnits }

\* The position of a unit in the list of loaded units
unit_no_in_list(mastrid) == unit_idx

\* The position of a unit in the catalogue
unit_no(mastrid) == CHOOSE i \in 1..Len(UnitNames) : UnitNames[i] = mastrid

PipelineCurtEnvs == {CurtNone, CurtNum(1), CurtText}

\* wind.calculate_power / solar_calculations: the raw power series of unit i
\* in the weather of a year, one of the series of the model
calculate_power(i, year) ==
    series_of([j \in 1..PatLen |->
                  IF (i + year + j) % 3 = 0 THEN NaN
                  ELSE IF (i + year + j) % 3 = 1 THEN 0 ELSE 40 * EU],
              year)

\* The reducer's values for each unit, year and curtailment of the pipeline
ReducedValues ==
    [t \in {"wind", "solar"}, i \in 1..Len(UnitNames), year \in SimYears,
     curt \in {get_curtailment(e).value : e \in PipelineCurtEnvs} |->
        IF t = "solar"
        THEN solar_values(calculate_power(i, year), rated_capacity(i), curt)
        ELSE wind_values(calculate_power(i, year), power_output_turbine_max,
                         rated_capacity(i), curt)]

\* The statement of a step at which the database raises: none, or the flush
\* of one of the tables
FailPoints == {"", "h", "m", "y"}

Init ==
    /\ tech \in {"wind", "solar"}
    /\ years \in YearLists
    /\ batch_size \in 1..MaxBatch
    /\ conflict_action \in {"skip_existing_row", "update"}
    /\ save_hourly \in BOOLEAN
    /\ curtailment_env \in PipelineCurtEnvs
    /\ outfile_postfix = 1
    /\ era5_rows \in {0, 1}
    /\ mastr_units \in Catalogues
    /\ incremental = FALSE
    /\ unit_list = <<>>
    /\ pc = "start"
    /\ run_no = 1
    /\ year_idx = 1
    /\ unit_idx = 1
    /\ curtailment = PyNone
    /\ angle_len = LeapSize
    /\ weather_year = 0
    /\ angles_used = 0
    /\ updates_hourly = <<>>
    /\ updates_monthly = <<>>
    /\ updates_yearly = <<>>
    /\ results = NoTables
    /\ last_flush = NoFlush
    /\ error = ""
    /\ appended = NoTables
    /\ passed = {}
    /\ modelled = {}
    /\ prev_run = NoPrevRun
    /\ ReducerIdle
    /\ BatchIdle
    /\ AggIdle
    /\ ExportIdle
    /\ CurveIdle

\* The query without the anti-join
query_table_all(table, res_yearly, inc, year) == table

\* session_funcs.query_table: the rows of the unit table; in incremental mode
\* those without a row of the year in the yearly results (outer join on unit
\* and year, filter on the joined side being null)
query_table(table, res_yearly, inc, year) ==
    LET no_result(u) ==
            ~ \E r \in res_yearly : /\ r.EinheitMastrNummer = u.EinheitMastrNummer
                                    /\ r.year = year
    IN  IF inc THEN SelectSeq(table, no_result) ELSE table

\* solar.load_calculation_solar_data
load_calculation_solar_data(table, res_yearly, inc, yrs) ==
    IF Len(yrs) # 1 /\ inc
    THEN [raised |-> "ValueError", units |-> <<>>]
    ELSE [raised |-> "", units |-> query_table(table, res_yearly, inc, yrs[1])]

\* WindCalc.load_turbine_data: query_table with its default incremental=False
load_turbine_data(table, res_yearly) ==
    [raised |-> "", units |-> query_table(table, res_yearly, FALSE, PyNone)]

\* calculate_cf_*: load the units, load the solar angles (stored with
\* LeapSize entries), get_curtailment
StartRun ==
    /\ pc = "start"
    /\ angle_len' = LeapSize
    /\ \E l \in {IF tech = "solar"
                  THEN load_calculation_solar_data(mastr_units, results.y, incremental,
                                                   years)
                  ELSE load_turbine_data(mastr_units, results.y)} :
          /\ unit_list' = l.units
          /\ IF l.raised # ""
             THEN /\ error' = l.raised
                  /\ pc' = "failed"
                  /\ UNCHANGED curtailment
             ELSE LET r == get_curtailment(curtailment_env)
                  IN  IF r.raised # ""
                      THEN /\ error' = r.raised
                           /\ pc' = "failed"
                           /\ UNCHANGED curtailment
                      ELSE /\ curtailment' = r.value
                           /\ pc' = "year"
                           /\ UNCHANGED error
    /\ UNCHANGED << run_no, year_idx, unit_idx, angles_used, results, last_flush,
                    weather_year >>
    /\ UNCHANGED << curve_vars, export_vars, agg_vars, setup_vars, run_vars, buffer_vars, history_vars, reducer_vars,
                    batch_vars >>

\* The loader with the exception of an unreadable file swallowed: the
\* window in memory stays
load_era5_weather_unchecked(year, readable, loaded) ==
    [raised |-> "", window |-> IF readable THEN year ELSE loaded]

\* load_era5_weather_wind / load_era5_weather_solar (year): the exception
\* raised and the weather window in memory afterwards.  readable: whether
\* every file {year}_{var}.nc opens and loads
load_era5_weather(year, readable, loaded) ==
    IF readable
    THEN [raised |-> "", window |-> year]
    ELSE [raised |-> "OSError", window |-> loaded]

\* Top of the loop over years: load the weather; solar: drop 29 February from
\* every angle series when the year is not a leap year (the mask has LeapSize
\* entries, the series are replaced in solar_angles_dict); fresh buffers
BeginYear ==
    /\ pc = "year"
    /\ year_idx <= Len(years)
    /\ \E readable \in BOOLEAN :
       \E w \in {load_era5_weather(years[year_idx], readable, weather_year)} :
          /\ weather_year' = w.window
          /\ IF w.raised # ""
             THEN /\ error' = w.raised
                  /\ pc' = "failed"
                  /\ UNCHANGED << angle_len, buffer_vars, appended >>
             ELSE IF tech = "solar" /\ years[year_idx] \notin LEAP_YEARS
             THEN IF angle_len # LeapSize
                  THEN /\ error' = "IndexError"     \* boolean index of the wrong length
                       /\ pc' = "failed"
                       /\ UNCHANGED << angle_len, buffer_vars, appended >>
                  ELSE /\ angle_len' = NonLeapSize
                       /\ pc' = "units"
                       /\ updates_hourly' = <<>>
                       /\ updates_monthly' = <<>>
                       /\ updates_yearly' = <<>>
                       /\ appended' = NoTables
                       /\ UNCHANGED error
             ELSE /\ pc' = "units"
                  /\ updates_hourly' = <<>>
                  /\ updates_monthly' = <<>>
                  /\ updates_yearly' = <<>>
                  /\ appended' = NoTables
                  /\ UNCHANGED << angle_len, error >>
    /\ unit_idx' = 1
    /\ angles_used' = 0
    /\ last_flush' = NoFlush
    /\ UNCHANGED << run_no, year_idx, results, unit_list, passed, modelled, prev_run >>
    /\ UNCHANGED << curve_vars, export_vars, agg_vars, setup_vars, run_vars, curtailment, reducer_vars, batch_vars >>

\* The records the loop body appends for a unit without coordinates
placeholder_records(mastrid, year) ==
    [h |-> create_results_dict(mastrid, year, <<0>>, <<0>>, "h", MissingCoordinates),
     m |-> create_results_dict(mastrid, year, <<0>>, <<0>>, "m", MissingCoordinates),
     y |-> create_results_dict(mastrid, year, 0, 0, "y", MissingCoordinates)]

\* The buffers, tables and history after a step that ended in stage st
Commit(st, recs) ==
    /\ updates_hourly' = st.updates.h
    /\ updates_monthly' = st.updates.m
    /\ updates_yearly' = st.updates.y
    /\ results' = st.results
    /\ last_flush' = st.flushed
    /\ appended' = [h |-> IF save_hourly THEN appended.h \cup {recs.h} ELSE appended.h,
                    m |-> appended.m \cup {recs.m},
                    y |-> appended.y \cup {recs.y}]

\* One pass of the loop over mastr_unit_list_of_tuples
ProcessUnit ==
    /\ pc = "units"
    /\ unit_idx <= Len(unit_list)
    /\ LET unit == unit_list[unit_idx]
           mastrid == unit.EinheitMastrNummer
           year == years[year_idx]
       IN
       \/ \* era5_ags_lat, era5_ags_lon = get_nearest_era5_coordinate(lat, lon)
          \* when the resolver finds no row and returns None
          /\ unit.coords # "grid"
          /\ era5_rows = 0
          /\ error' = "TypeError"
          /\ pc' = "failed"
          /\ last_flush' = NoFlush
          /\ UNCHANGED << unit_idx, angles_used, results, buffer_vars, appended, modelled >>
       \/ \* `if lat is None or lon is None`: placeholder records, `continue`
          /\ unit.coords = "none"
          /\ era5_rows > 0
          /\ \E recs \in {placeholder_records(mastrid, year)} :
                Commit(Stage(IF save_hourly THEN Append(updates_hourly, recs.h)
                             ELSE updates_hourly,
                             Append(updates_monthly, recs.m),
                             Append(updates_yearly, recs.y),
                             results), recs)
          /\ unit_idx' = unit_idx + 1
          /\ UNCHANGED << pc, error, angles_used, modelled >>
       \/ \* the power model on angle series of another length than the weather
          /\ unit.coords = "grid" \/ (unit.coords = "raw" /\ era5_rows > 0)
          /\ tech = "solar"
          /\ angle_len # hours_of_year(year)
          /\ angles_used' = angle_len
          /\ modelled' = modelled \cup {<< mastrid, year >>}
          /\ error' = "ValueError"
          /\ pc' = "failed"
          /\ last_flush' = NoFlush
          /\ UNCHANGED << unit_idx, results, buffer_vars, appended >>
       \/ \* power model, reducer, save_and_commit of the three buffers
          /\ unit.coords = "grid" \/ (unit.coords = "raw" /\ era5_rows > 0)
          /\ tech = "solar" => angle_len = hours_of_year(year)
          /\ angles_used' = IF tech = "solar" THEN angle_len ELSE angles_used
          /\ modelled' = modelled \cup {<< mastrid, year >>}
          /\ \E fail_at \in FailPoints :
             \E recs \in {result_records(ReducedValues[tech, unit_no(mastrid), year,
                                                       curtailment],
                                         year, mastrid)} :
             \E bufs \in {append_records(recs, updates_monthly, updates_yearly,
                                         updates_hourly)} :
             \E st \in {update_db(Stage(bufs[1], bufs[2], bufs[3], results),
                                  conflict_action, batch_size, fail_at)} :
                /\ Commit(st, recs)
                /\ IF st.raised # ""
                   THEN /\ error' = st.raised
                        /\ pc' = "failed"
                        /\ UNCHANGED unit_idx
                   ELSE /\ unit_idx' = unit_idx + 1
                        /\ UNCHANGED << pc, error >>
    /\ UNCHANGED << run_no, year_idx, angle_len, weather_year, unit_list, passed,
                    prev_run >>
    /\ UNCHANGED << curve_vars, export_vars, agg_vars, setup_vars, run_vars, curtailment, reducer_vars, batch_vars >>

\* After the last unit: the flush with batch_size=None of every buffer that
\* holds records; then the next year
EndYear ==
    /\ pc = "units"
    /\ unit_idx > Len(unit_list)
    /\ \E fail_at \in FailPoints :
       \E st \in {update_db(Stage(updates_hourly, updates_monthly, updates_yearly,
                                  results), conflict_action, PyNone, fail_at)} :
          /\ updates_hourly' = st.updates.h
          /\ updates_monthly' = st.updates.m
          /\ updates_yearly' = st.updates.y
          /\ results' = st.results
          /\ last_flush' = st.flushed
          /\ IF st.raised # ""
             THEN /\ error' = st.raised
                  /\ pc' = "failed"
                  /\ UNCHANGED << year_idx, passed, angles_used >>
             ELSE /\ year_idx' = year_idx + 1
                  /\ pc' = "year"
                  /\ angles_used' = 0
                  /\ passed' = passed \cup
                        {<< unit_list[i].EinheitMastrNummer, years[year_idx] >> :
                           i \in 1..Len(unit_list)}
                  /\ UNCHANGED error
    /\ UNCHANGED << run_no, unit_idx, angle_len, weather_year, unit_list, appended,
                    modelled, prev_run >>
    /\ UNCHANGED << curve_vars, export_vars, agg_vars, setup_vars, run_vars, curtailment, reducer_vars, batch_vars >>

\* The loop over years is exhausted: the run returns
EndRun ==
    /\ pc = "year"
    /\ year_idx > Len(years)
    /\ pc' = "done"
    /\ UNCHANGED << curve_vars, export_vars, agg_vars, setup_vars, run_vars, curtailment, error, buffer_vars, history_vars,
                    pipeline_vars, reducer_vars, batch_vars >>

\* The pipeline is started again on the same catalogue, years and tables,
\* with the conflict policy and OUTFILE_POSTFIX of the new run
NextRun ==
    /\ pc \in {"done", "failed"}
    /\ run_no < MaxRuns
    /\ run_no' = run_no + 1
    /\ conflict_action' \in {"skip_existing_row", "update"}
    /\ outfile_postfix' \in 1..MaxPostfix
    /\ prev_run' = IF pc = "done"
                   THEN [completed |-> TRUE, conflict_action |-> conflict_action,
                         outfile_postfix |-> outfile_postfix, results |-> results]
                   ELSE NoPrevRun
    /\ pc' = "start"
    /\ error' = ""
    /\ curtailment' = PyNone
    /\ year_idx' = 1
    /\ unit_idx' = 1
    /\ angles_used' = 0
    /\ updates_hourly' = <<>>
    /\ updates_monthly' = <<>>
    /\ updates_yearly' = <<>>
    /\ last_flush' = NoFlush
    /\ appended' = NoTables
    /\ weather_year' = 0
    /\ unit_list' = <<>>
    /\ UNCHANGED << angle_len, results, passed, modelled >>
    /\ UNCHANGED << curve_vars, export_vars, agg_vars, setup_vars, reducer_vars, batch_vars >>

Next == StartRun \/ BeginYear \/ ProcessUnit \/ EndYear \/ EndRun \/ NextRun

Spec == Init /\ [][Next]_vars

\* The solar pipeline with LIMIT_MASTR_UNITS read from the environment:
\* "incremental" or not
IncrementalInit ==
    /\ tech = "solar"
    /\ years \in YearLists
    /\ batch_size \in 1..MaxBatch
    /\ conflict_action \in {"skip_existing_row", "update"}
    /\ save_hourly \in BOOLEAN
    /\ curtailment_env \in {CurtNone, CurtText}
    /\ outfile_postfix = 1
    /\ era5_rows \in {0, 1}
    /\ mastr_units \in Catalogues
    /\ incremental \in BOOLEAN
    /\ unit_list = <<>>
    /\ pc = "start"
    /\ run_no = 1
    /\ year_idx = 1
    /\ unit_idx = 1
    /\ curtailment = PyNone
    /\ angle_len = LeapSize
    /\ weather_year = 0
    /\ angles_used = 0
    /\ updates_hourly = <<>>
    /\ updates_monthly = <<>>
    /\ updates_yearly = <<>>
    /\ results = NoTables
    /\ last_flush = NoFlush
    /\ error = ""
    /\ appended = NoTables
    /\ passed = {}
    /\ modelled = {}
    /\ prev_run = NoPrevRun
    /\ ReducerIdle
    /\ BatchIdle
    /\ AggIdle
    /\ ExportIdle
    /\ CurveIdle

SpecIncremental == IncrementalInit /\ [][Next]_vars

MaxOrderUnits == 3    \* units in a catalogue that is loaded in any order

\* The catalogues of up to MaxOrderUnits units, with nearest-grid coordinates
\* or with none at all, in every order the query may return the rows
OrderedCatalogues ==
    UNION { {[i \in 1..n |-> catalogue(k)[p[i]]] :
                k \in [1..n -> {"grid", "none"}],
                p \in {q \in [1..n -> 1..n] : \A i, j \in 1..n : q[i] = q[j] => i = j}} :
            n \in 0..MaxOrderUnits }

\* One simulation year, a unit list in any order, any batch size
OrderInit ==
    /\ tech \in {"wind", "solar"}
    /\ years \in {l \in YearLists : Len(l) = 1}
    /\ batch_size \in 1..MaxBatch
    /\ conflict_action \in {"skip_existing_row", "update"}
    /\ save_hourly \in BOOLEAN
    /\ curtailment_env \in {CurtNone, CurtNum(1)}
    /\ outfile_postfix = 1
    /\ era5_rows = 1
    /\ mastr_units \in OrderedCatalogues
    /\ incremental = FALSE
    /\ unit_list = <<>>
    /\ pc = "start"
    /\ run_no = 1
    /\ year_idx = 1
    /\ unit_idx = 1
    /\ curtailment = PyNone
    /\ angle_len = LeapSize
    /\ weather_year = 0
    /\ angles_used = 0
    /\ updates_hourly = <<>>
    /\ updates_monthly = <<>>
    /\ updates_yearly = <<>>
    /\ results = NoTables
    /\ last_flush = NoFlush
    /\ error = ""
    /\ appended = NoTables
    /\ passed = {}
    /\ modelled = {}
    /\ prev_run = NoPrevRun
    /\ ReducerIdle
    /\ BatchIdle
    /\ AggIdle
    /\ ExportIdle
    /\ CurveIdle

SpecOrder == OrderInit /\ [][Next]_vars

-----------------------------------------------------------------------------
(* Properties of the pipeline *)

Granularities == {"h", "m", "y"}

\* The exceptions of the environment: the database, the configuration text
EnvironmentErrors == {"DatabaseError", "UnboundLocalError", "OSError"}

\* C2: in calculate_cf_solar, for every list of years, the angle series
\* handed to solar_calculations for a year has the length of that year
\* (8760 or 8784 entries), and no year fails because of the length of the
\* angle series.
C2_AngleSeriesMatchYear ==
    tech = "solar"
    => /\ error \notin {"IndexError", "ValueError"}
       /\ angles_used # 0 => angles_used = hours_of_year(years[year_idx])

\* C4: for every requested year and both technologies, a unit whose
\* nearest-grid coordinates are null and whose raw latitude or longitude is
\* null yields a yearly record with energy 0, capacity factor 0 and a reason,
\* the power model is not invoked for it, and the loop goes on after it.
C4_NullCoordinatesYieldPlaceholder ==
    \A i \in 1..Len(mastr_units) :
       mastr_units[i].coords = "none"
       => LET mastrid == mastr_units[i].EinheitMastrNummer
          IN  /\ \A y \in SimYears : << mastrid, y >> \notin modelled
              /\ (pc = "failed" /\ unit_idx = i) => error \in EnvironmentErrors
              /\ (pc \in {"done", "failed"} /\ error \notin EnvironmentErrors)
                 => \A k \in 1..Len(years) :
                       \E r \in results.y :
                          /\ key_of(r) = << mastrid, years[k] >>
                          /\ r.energy = 0
                          /\ r.cf = 0
                          /\ r.no_calc_reason # NoReason

\* C5: after any sequence of runs and under both conflict policies, each
\* result table holds at most one row per (unit, year), and exactly one
\* yearly and one monthly row for every (unit, year) of a completed pass.
C5_OneRowPerUnitAndYear ==
    /\ \A g \in Granularities :
          \A r1, r2 \in results[g] : key_of(r1) = key_of(r2) => r1 = r2
    /\ \A k \in passed :
          /\ Cardinality({r \in results.m : key_of(r) = k}) = 1
          /\ Cardinality({r \in results.y : key_of(r) = k}) = 1

\* A second run with another postfix has overwritten rows of the first
C5_Witness ==
    /\ run_no = 2
    /\ pc = "done"
    /\ prev_run.completed
    /\ conflict_action = "update"
    /\ prev_run.outfile_postfix # outfile_postfix
    /\ passed # {}
    /\ \E r \in results.y : r.outfile_postfix = outfile_postfix

C7_YearPassCommitsEveryRecord ==
    (pc \in {"year", "done"} /\ year_idx > 1)
    => /\ updates_hourly = <<>>
       /\ updates_monthly = <<>>
       /\ updates_yearly = <<>>
       /\ \A g \in Granularities :
             \A rec \in appended[g] :
                /\ \E row \in results[g] : key_of(row) = key_of(rec)
                /\ (conflict_action = "update" \/ run_no = 1) => rec \in results[g]

\* A pass over fewer units than a batch holds has ended
C7_Witness ==
    /\ pc = "year"
    /\ year_idx > 1
    /\ Len(mastr_units) % batch_size # 0
    /\ Cardinality(appended.y) = Len(mastr_units)
    /\ Cardinality(results.y) >= Len(mastr_units)

\* C8: during the pass over a year, after each unit no buffer holds
\* batch_size or more records, and no flush writes more than batch_size
\* records.
C8_BuffersFlushedAtBatchSize ==
    /\ pc = "units"
       => /\ Len(updates_hourly) < batch_size
          /\ Len(updates_monthly) < batch_size
          /\ Len(updates_yearly) < batch_size
    /\ \A g \in Granularities : last_flush[g] <= batch_size

\* C9: when SAVE_HOURLY_DATA is not enabled the hourly buffer stays empty,
\* for real and placeholder units, and nothing is written to the hourly table.
C9_HourlySkippedUnlessEnabled ==
    ~save_hourly
    => /\ updates_hourly = <<>>
       /\ appended.h = {}
       /\ last_flush.h = 0
       /\ results.h = {}

\* A run without hourly retention that stored real and placeholder rows
C9_Witness ==
    /\ ~save_hourly
    /\ pc = "done"
    /\ \E r1, r2 \in results.y :
          r1.no_calc_reason = NoReason /\ r2.no_calc_reason = MissingCoordinates

\* The weather of a year fails to load in this step
weather_load_fails == error # "OSError" /\ error' = "OSError"

\* C17: in every year the weather is loaded before the first unit is
\* computed: units are computed only under the weather window of their own
\* year.  A failing load ends the run with the error at the top of the
\* year: no unit is computed and no record is buffered or committed for
\* that year, and the result tables keep the records of the years before.
C17_WeatherLoadedBeforeUnits ==
    [][ /\ pc' = "units" => weather_year' = years[year_idx']
        /\ modelled' # modelled => weather_year = years[year_idx]
        /\ weather_load_fails =>
              /\ pc = "year" /\ pc' = "failed"
              /\ updates_hourly' = <<>> /\ updates_monthly' = <<>> /\ updates_yearly' = <<>>
              /\ UNCHANGED << results, modelled, passed, year_idx >>
        /\ (pc = "failed" /\ error = "OSError") =>
              (run_no' = run_no + 1 /\ pc' = "start")
      ]_vars

\* The weather of the second year of a run failed to load after the first
\* year's records were committed
C17_Witness ==
    /\ pc = "failed"
    /\ error = "OSError"
    /\ year_idx = 2
    /\ \E r \in results.y : r.year = years[1]
    /\ \A r \in results.y : r.year # years[2]
    /\ \A i \in 1..Len(mastr_units) :
           << mastr_units[i].EinheitMastrNummer, years[2] >> \notin modelled

\* The unit IDs of a list of units and of a set of records
unit_ids(units) == {units[i].EinheitMastrNummer : i \in 1..Len(units)}
record_ids(rows) == {r.EinheitMastrNummer : r \in rows}

\* The units of Calculation_solar without a yearly result row of the year
missing_units(res_yearly, year) ==
    {id \in unit_ids(mastr_units) : \A r \in res_yearly : key_of(r) # << id, year >>}

C21_UnresolvedCoordinatesYieldPlaceholder ==
    \A i \in 1..Len(unit_list) :
       (unit_list[i].coords # "grid" /\ era5_rows = 0)
       => /\ (pc = "failed" /\ unit_idx = i) => error \in EnvironmentErrors
          /\ (pc = "units" /\ unit_idx > i)
             => \E r \in appended.y :
                   /\ r.EinheitMastrNummer = unit_list[i].EinheitMastrNummer
                   /\ r.energy = 0
                   /\ r.cf = 0
                   /\ r.no_calc_reason # NoReason

\* C22: every monthly record appended to the monthly buffer, of a computed
\* unit or a placeholder, carries exactly 12 energy values and exactly 12
\* capacity-factor values.
C22_MonthlyRecordsHaveTwelveValues ==
    \A r \in appended.m :
       /\ Len(r.energy) = 12
       /\ Len(r.cf) = 12

\* The records of one unit in one year: a function of the unit's row, the
\* year's weather and the configuration
unit_records(unit, year) ==
    IF unit.coords = "none"
    THEN placeholder_records(unit.EinheitMastrNummer, year)
    ELSE result_records(
             ReducedValues[tech,
                           CHOOSE i \in 1..Len(UnitNames) :
                               UnitNames[i] = unit.EinheitMastrNummer,
                           year, curtailment],
             year, unit.EinheitMastrNummer)

\* The rows of granularity g of the units of the catalogue in a year
pass_rows(g, year) ==
    IF g = "h" /\ ~save_hourly THEN {}
    ELSE {unit_records(mastr_units[i], year)[g] : i \in 1..Len(mastr_units)}

\* C24: for one simulation year, the rows stored after a complete pass (on
\* empty tables, or under policy update) are the rows of the units of the
\* catalogue, each a function of that unit alone: they are the same for every
\* order of the unit list and every batch size.
C24_StoredRowsIndependentOfOrderAndBatch ==
    (pc = "done" /\ Len(years) = 1 /\ (run_no = 1 \/ conflict_action = "update"))
    => \A g \in {"h", "m", "y"} : results[g] = pass_rows(g, years[1])

\* A complete pass over three units loaded in another order than the
\* catalogue's, flushed in batches of two
C24_Witness ==
    /\ pc = "done"
    /\ Len(years) = 1
    /\ Len(unit_list) = 3
    /\ unit_list[1].EinheitMastrNummer = "U3"
    /\ unit_list[2].EinheitMastrNummer = "U1"
    /\ batch_size = 2
    /\ Cardinality(results.y) = 3
    /\ \A g \in {"h", "m", "y"} : results[g] = pass_rows(g, years[1])

-----------------------------------------------------------------------------
(* session_funcs.py: one flush, statement by statement.  save_and_commit calls *)
(* save_to_db, which calls batch_update; every execute and every commit of     *)
(* batch_update is a step at which the database may raise.                     *)

\* Rows of a result table and of a buffer
ResultRows == [EinheitMastrNummer : {"U1", "U2"}, year : {2019}, energy : {0, 1}]

\* Rows of Calculation_wind / Calculation_solar and of the municipality
\* updates that update_coordinates hands over under policy "join"
CalcRows == { [EinheitMastrNummer |-> "U1", Gemeindeschluessel |-> "G1", era5_ags_lat |-> 0],
              [EinheitMastrNummer |-> "U2", Gemeindeschluessel |-> "G1", era5_ags_lat |-> 0],
              [EinheitMastrNummer |-> "U2", Gemeindeschluessel |-> "G2", era5_ags_lat |-> 0] }
JoinRows == [Gemeindeschluessel : {"G1", "G2"}, era5_ags_lat : {1, 2}]

MaxFlush == 2         \* records in the buffer handed to save_and_commit

BufferOf(rows) == UNION { [1..n -> rows] : n \in 0..MaxFlush }

BatchStatements == {"create_temp", "commit_create_temp", "insert_temp",
                    "commit_insert_temp", "update", "commit_update", "drop",
                    "commit_drop", "insert", "commit_insert"}

BatchInit ==
    /\ conflict_action \in {"skip_existing_row", "update", "join"}
    /\ batch_size \in {PyNone} \cup (1..MaxFlush)
    /\ IF conflict_action = "join"
       THEN /\ bu_table \in {t \in SUBSET CalcRows :
                               \A r1, r2 \in t :
                                  r1.EinheitMastrNummer = r2.EinheitMastrNummer => r1 = r2}
            /\ bu_updates \in BufferOf(JoinRows)
       ELSE /\ bu_table \in {t \in SUBSET ResultRows :
                               \A r1, r2 \in t : key_of(r1) = key_of(r2) => r1 = r2}
            /\ bu_updates \in BufferOf(ResultRows)
    /\ bu_fail_at \in {""} \cup BatchStatements
    /\ bu_pc = "save_and_commit"
    /\ bu_work = bu_table
    /\ bu_before = bu_table
    /\ bu_temp = NoTempTable
    /\ error = ""
    /\ tech = "wind"
    /\ years = <<2019>>
    /\ save_hourly = FALSE
    /\ curtailment_env = CurtNone
    /\ curtailment = PyNone
    /\ pc = "flush"
    /\ updates_hourly = <<>>
    /\ updates_monthly = <<>>
    /\ updates_yearly = <<>>
    /\ PipelineIdle
    /\ ReducerIdle
    /\ AggIdle
    /\ ExportIdle
    /\ CurveIdle

BatchUnchanged ==
    UNCHANGED << curve_vars, export_vars, agg_vars, setup_vars, run_vars, pc, curtailment, buffer_vars, history_vars,
                 pipeline_vars, reducer_vars, bu_fail_at >>

\* save_and_commit: `if batch_size is None or len(updates) >= batch_size`,
\* save_to_db: `if update_list`, batch_update up to its try block
B_SaveAndCommit ==
    /\ bu_pc = "save_and_commit"
    /\ bu_before' = bu_table
    /\ bu_pc' = IF batch_size = PyNone \/ Len(bu_updates) >= batch_size
                THEN IF bu_updates = <<>> THEN "clear"
                     ELSE IF conflict_action = "join" THEN "create_temp"
                     ELSE "insert"
                ELSE "returned"
    /\ UNCHANGED << bu_table, bu_work, bu_temp, bu_updates, error >>
    /\ BatchUnchanged

\* cursor.execute(create_temp_table_query)
B_CreateTemp ==
    /\ bu_pc = "create_temp"
    /\ IF bu_fail_at = bu_pc
       THEN bu_pc' = "except" /\ UNCHANGED bu_temp
       ELSE bu_pc' = "commit_create_temp" /\ bu_temp' = [bu_temp EXCEPT !.work = "created"]
    /\ UNCHANGED << bu_table, bu_work, bu_before, bu_updates, error >>
    /\ BatchUnchanged

\* execute_values(cursor, insert_temp_query, data)
B_InsertTemp ==
    /\ bu_pc = "insert_temp"
    /\ IF bu_fail_at = bu_pc
       THEN bu_pc' = "except" /\ UNCHANGED bu_temp
       ELSE bu_pc' = "commit_insert_temp" /\ bu_temp' = [bu_temp EXCEPT !.work = "filled"]
    /\ UNCHANGED << bu_table, bu_work, bu_before, bu_updates, error >>
    /\ BatchUnchanged

\* The tables UPDATE target SET ... FROM tmp_update_data AS temp WHERE
\* target."Gemeindeschluessel" = temp.Gemeindeschluessel can leave: a target
\* row takes the values of one of the temp rows of its municipality
join_update(table, updates) ==
    LET matches(r) == {updates[j] : j \in {k \in 1..Len(updates) :
                          updates[k].Gemeindeschluessel = r.Gemeindeschluessel}}
        outcomes(r) == IF matches(r) = {} THEN {r}
                       ELSE {[r EXCEPT !.era5_ags_lat = u.era5_ags_lat] : u \in matches(r)}
    IN  { {f[r] : r \in table} :
          f \in {g \in [table -> UNION {outcomes(r) : r \in table}] :
                   \A r \in table : g[r] \in outcomes(r)} }

\* cursor.execute(update_query)
B_Update ==
    /\ bu_pc = "update"
    /\ IF bu_fail_at = bu_pc
       THEN bu_pc' = "except" /\ UNCHANGED bu_work
       ELSE bu_pc' = "commit_update" /\ bu_work' \in join_update(bu_work, bu_updates)
    /\ UNCHANGED << bu_table, bu_before, bu_temp, bu_updates, error >>
    /\ BatchUnchanged

\* cursor.execute(drop_temp_table_query)
B_Drop ==
    /\ bu_pc = "drop"
    /\ IF bu_fail_at = bu_pc
       THEN bu_pc' = "except" /\ UNCHANGED bu_temp
       ELSE bu_pc' = "commit_drop" /\ bu_temp' = [bu_temp EXCEPT !.work = "absent"]
    /\ UNCHANGED << bu_table, bu_work, bu_before, bu_updates, error >>
    /\ BatchUnchanged

\* execute_values(cursor, insert_query, data) under "skip_existing_row" / "update"
B_Insert ==
    /\ bu_pc = "insert"
    /\ \E r \in {insert_values(bu_work, bu_updates, 1, conflict_action)} :
          IF bu_fail_at = bu_pc \/ r.raised # ""
          THEN bu_pc' = "except" /\ UNCHANGED bu_work
          ELSE bu_pc' = "commit_insert" /\ bu_work' = r.table
    /\ UNCHANGED << bu_table, bu_before, bu_temp, bu_updates, error >>
    /\ BatchUnchanged

\* connection.commit() after a statement
B_Commit ==
    /\ bu_pc \in {"commit_create_temp", "commit_insert_temp", "commit_update",
                  "commit_drop", "commit_insert"}
    /\ IF bu_fail_at = bu_pc
       THEN /\ bu_pc' = "except"
            /\ UNCHANGED << bu_table, bu_temp >>
       ELSE /\ bu_table' = bu_work
            /\ bu_temp' = [bu_temp EXCEPT !.committed = bu_temp.work]
            /\ bu_pc' = CASE bu_pc = "commit_create_temp" -> "insert_temp"
                          [] bu_pc = "commit_insert_temp" -> "update"
                          [] bu_pc = "commit_update" -> "drop"
                          [] OTHER -> "clear"
    /\ UNCHANGED << bu_work, bu_before, bu_updates, error >>
    /\ BatchUnchanged

\* except: connection.rollback(); raise.  The exception leaves save_to_db and
\* save_and_commit: updates.clear() is not reached.
B_Rollback ==
    /\ bu_pc = "except"
    /\ bu_work' = bu_table
    /\ bu_temp' = [bu_temp EXCEPT !.work = bu_temp.committed]
    /\ error' = "DatabaseError"
    /\ bu_pc' = "raised"
    /\ UNCHANGED << bu_table, bu_before, bu_updates >>
    /\ BatchUnchanged

\* updates.clear(); session.commit()
B_Clear ==
    /\ bu_pc = "clear"
    /\ bu_updates' = <<>>
    /\ bu_pc' = "returned"
    /\ UNCHANGED << bu_table, bu_work, bu_before, bu_temp, error >>
    /\ BatchUnchanged

BatchNext ==
    \/ B_SaveAndCommit
    \/ B_CreateTemp
    \/ B_InsertTemp
    \/ B_Update
    \/ B_Drop
    \/ B_Insert
    \/ B_Commit
    \/ B_Rollback
    \/ B_Clear

SpecBatch == BatchInit /\ [][BatchNext]_vars

\* C10: under each of the three conflict policies, when batch_update fails
\* the target table holds the rows it held before the flush, the error
\* reaches the caller, and the buffer is not cleared.
C10_FlushIsAllOrNothing ==
    bu_pc = "raised"
    => /\ bu_table = bu_before
       /\ error # ""
       /\ bu_updates # <<>>

\* The rows and the keys of a buffer
rows_of(updates) == {updates[i] : i \in 1..Len(updates)}
keys_of(rows) == {key_of(r) : r \in rows}

\* No two records of the buffer have the same (unit, year): the pipelines
\* append one record per unit in a year pass
unique_keys(updates) ==
    \A i, j \in 1..Len(updates) : key_of(updates[i]) = key_of(updates[j]) => i = j

\* C18: a flush under skip_existing_row leaves every row with an existing
\* (unit, year) key as it was and inserts exactly the buffered rows whose key
\* was absent; a flush under update replaces, for every buffered row with an
\* existing key, the non-key columns by the buffered row's, inserts the
\* others and leaves the rest of the table as it was.
C18_ConflictPolicies ==
    (/\ bu_pc = "clear"
     /\ conflict_action \in {"skip_existing_row", "update"}
     /\ bu_updates # <<>>
     /\ unique_keys(bu_updates))
    => IF conflict_action = "skip_existing_row"
       THEN bu_table = bu_before
                       \cup {r \in rows_of(bu_updates) : key_of(r) \notin keys_of(bu_before)}
       ELSE bu_table = {r \in bu_before : key_of(r) \notin keys_of(rows_of(bu_updates))}
                       \cup rows_of(bu_updates)

\* A flush of two records under update: one replaced a row with other
\* values, one was inserted
C18_Witness ==
    /\ bu_pc = "clear"
    /\ conflict_action = "update"
    /\ Len(bu_updates) = 2
    /\ unique_keys(bu_updates)
    /\ \E r \in rows_of(bu_updates) :
           \E old \in bu_before : key_of(old) = key_of(r) /\ old # r /\ r \in bu_table
    /\ \E r \in rows_of(bu_updates) :
           key_of(r) \notin keys_of(bu_before) /\ r \in bu_table

-----------------------------------------------------------------------------
(* aggregator.py: the SQL of aggregate().  A float column holds an exact    *)
(* fraction [num, den]; den = 0 is SQL NULL.  Integer and text columns hold *)
(* SqlNull and NullText for NULL.  A date is <<year, month, day>>.          *)

SqlNull == PyNone
NullText == NoReason
NullDate == <<>>
NullNum == [num |-> 0, den |-> 0]

\* n / d as a fraction in lowest terms (n >= 0, d > 0)
Frac(n, d) == LET g == GCD(n, d) IN [num |-> n \div g, den |-> d \div g]

\* A number of the unit or result tables as a float value
num_of(x) == IF x = SqlNull THEN NullNum ELSE Frac(x, 1)

sql_add(a, b) == Frac(a.num * b.den + b.num * a.den, a.den * b.den)

\* a * b: NULL when an operand is NULL
sql_mul(a, b) ==
    IF a.den = 0 \/ b.den = 0 THEN NullNum ELSE Frac(a.num * b.num, a.den * b.den)

\* The error "division by zero" of a float division, as a value
DivisionByZero == [num |-> 0 - 1, den |-> 0]

\* a / b: NULL when an operand is NULL
sql_div(a, b) ==
    IF a.den = 0 \/ b.den = 0 THEN NullNum
    ELSE IF b.num = 0 THEN DivisionByZero
    ELSE Frac(a.num * b.den, a.den * b.num)

RECURSIVE FnSum(_)
FnSum(f) ==
    IF DOMAIN f = {} THEN Frac(0, 1)
    ELSE LET x == CHOOSE x \in DOMAIN f : TRUE
         IN  sql_add(f[x], FnSum([y \in DOMAIN f \ {x} |-> f[y]]))

\* The non-NULL values of a column over the rows of a group
NonNull(f) == [x \in {x \in DOMAIN f : f[x].den # 0} |-> f[x]]

\* sum(col): NULL values are skipped; NULL when no value is left
sql_sum(f) == IF DOMAIN NonNull(f) = {} THEN NullNum ELSE FnSum(NonNull(f))

\* avg(col)
sql_avg(f) ==
    IF DOMAIN NonNull(f) = {} THEN NullNum
    ELSE LET s == FnSum(NonNull(f))
         IN  Frac(s.num, s.den * Cardinality(DOMAIN NonNull(f)))

\* sum(v * w) / sum(w) without the guard
power_weighted_unguarded(v, w) ==
    sql_div(sql_sum([x \in DOMAIN v |-> sql_mul(v[x], w[x])]), sql_sum(w))

\* case when sum(w) > 0 then sum(v * w) / sum(w) else Null end
power_weighted(v, w) ==
    LET sw == sql_sum(w)
    IN  IF sw.den # 0 /\ sw.num > 0
        THEN sql_div(sql_sum([x \in DOMAIN v |-> sql_mul(v[x], w[x])]), sw)
        ELSE NullNum

coalesce(x, default) == IF x = NullText THEN default ELSE x

\* EXTRACT(YEAR FROM date)
extract_year(date) == date[1]

\* ALTER TABLE ... ADD CONSTRAINT ... PRIMARY KEY (text_cols, num_cols): the
\* error the statement raises on these rows ("" when it succeeds)
add_primary_key(rows, text_cols, num_cols) ==
    IF \E r \in rows : \/ \E c \in text_cols : r[c] = NullText
                       \/ \E c \in num_cols : r[c] = SqlNull
    THEN "NotNullViolation"
    ELSE IF \E r1, r2 \in rows :
                /\ r1 # r2
                /\ \A c \in text_cols \cup num_cols : r1[c] = r2[c]
    THEN "UniqueViolation"
    ELSE ""

\* drop_n_create with "create table if not exists" and no drop: rows of the
\* table of an earlier run stay
drop_n_create_keep(table, sql, text_cols, num_cols) ==
    [table |-> [exists |-> TRUE, rows |-> table.rows \cup sql],
     raised |-> add_primary_key(table.rows \cup sql, text_cols, num_cols)]

\* drop_n_create(table, sql, pk): the table afterwards and the error raised
drop_n_create(table, sql, text_cols, num_cols) ==
    [table |-> [exists |-> TRUE, rows |-> sql],
     raised |-> add_primary_key(sql, text_cols, num_cols)]

-----------------------------------------------------------------------------
(* aggregator.py: the queries of aggregate() *)

\* tmp_agg_{tech}_all_res: the all-years average capacity factor of a unit
all_res_sql(res) ==
    { [EMastr |-> id,
       avg_cf |-> sql_avg([r \in {r \in res : r.EinheitMastrNummer = id} |->
                              num_of(r.cf)])]
        : id \in {r.EinheitMastrNummer : r \in res} }

\* tmp_agg_{tech}_all with EXTRACT(YEAR FROM "Inbetriebnahmedatum") alone: no
\* commissioning year for a unit without a commissioning date
tab1_sql_null_year(calc, all_res) ==
    { [EinheitMastrNummer |-> c.EinheitMastrNummer,
       plz |-> coalesce(c.Postleitzahl, ""),
       Nettonennleistung |-> c.Nettonennleistung,
       plz_lat |-> c.plz_lat,
       plz_lon |-> c.plz_lon,
       ags |-> coalesce(c.Gemeindeschluessel, "MISSING"),
       ags_lat |-> c.ags_lat,
       ags_lon |-> c.ags_lon,
       bl |-> coalesce(c.Bundesland, "MISSING"),
       Inbetriebnahmejahr |-> IF c.Inbetriebnahmedatum # NullDate
                              THEN extract_year(c.Inbetriebnahmedatum) ELSE SqlNull,
       Stilllegung_datum |-> c.DatumEndgueltigeStilllegung,
       Stilllegung_jahr |-> IF c.DatumEndgueltigeStilllegung # NullDate
                            THEN extract_year(c.DatumEndgueltigeStilllegung) ELSE 9999,
       avg_cf |-> IF \E a \in all_res : a.EMastr = c.EinheitMastrNummer
                  THEN (CHOOSE a \in all_res : a.EMastr = c.EinheitMastrNummer).avg_cf
                  ELSE NullNum]
        : c \in calc }

\* tmp_agg_{tech}_all: one row per unit
tab1_sql(calc, all_res) ==
    { [EinheitMastrNummer |-> c.EinheitMastrNummer,
       plz |-> coalesce(c.Postleitzahl, ""),
       Nettonennleistung |-> c.Nettonennleistung,
       plz_lat |-> c.plz_lat,
       plz_lon |-> c.plz_lon,
       ags |-> coalesce(c.Gemeindeschluessel, "MISSING"),
       ags_lat |-> c.ags_lat,
       ags_lon |-> c.ags_lon,
       bl |-> coalesce(c.Bundesland, "MISSING"),
       Inbetriebnahmejahr |-> IF c.Inbetriebnahmedatum # NullDate
                              THEN extract_year(c.Inbetriebnahmedatum) ELSE 0 - 1,
       Stilllegung_datum |-> c.DatumEndgueltigeStilllegung,
       Stilllegung_jahr |-> IF c.DatumEndgueltigeStilllegung # NullDate
                            THEN extract_year(c.DatumEndgueltigeStilllegung) ELSE 9999,
       avg_cf |-> IF \E a \in all_res : a.EMastr = c.EinheitMastrNummer
                  THEN (CHOOSE a \in all_res : a.EMastr = c.EinheitMastrNummer).avg_cf
                  ELSE NullNum]
        : c \in calc }

\* {agg_lvl} of a row of tab1
geo(r, lvl) == CASE lvl = "ags" -> r.ags [] lvl = "plz" -> r.plz [] OTHER -> r.bl

\* {grp_cols} of a row of tab1
grp_cols(r, lvl) ==
    CASE lvl = "ags" -> << r.ags_lat, r.ags_lon >>
      [] lvl = "plz" -> << r.plz_lat, r.plz_lon >>
      [] OTHER -> << >>

capacity(g) == [r \in g |-> num_of(r.Nettonennleistung)]

\* tmp_agg_{tech}: group by {agg_lvl}{grp_cols}
tmp_agg_sql(tab1, lvl) ==
    { LET g == {r \in tab1 : geo(r, lvl) = k[1] /\ grp_cols(r, lvl) = k[2]}
      IN  [agg_lvl |-> k[1],
           grp_cols |-> k[2],
           avg_cf_gesamt |-> sql_avg([r \in g |-> r.avg_cf]),
           avg_cf_gesamt_power_weighted |->
               power_weighted([r \in g |-> r.avg_cf], capacity(g)),
           nettonennleistung_gesamt |-> sql_sum(capacity(g)),
           anzahl_gesamt |-> Cardinality(g)]
        : k \in {<< geo(r, lvl), grp_cols(r, lvl) >> : r \in tab1} }

\* tmp_agg_year: group by {agg_lvl}, Inbetriebnahmejahr{grp_cols}
tmp_agg_year_sql(tab1, lvl) ==
    { LET g == {r \in tab1 : /\ geo(r, lvl) = k[1]
                             /\ r.Inbetriebnahmejahr = k[2]
                             /\ grp_cols(r, lvl) = k[3]}
      IN  [agg_lvl |-> k[1],
           Inbetriebnahmejahr |-> k[2],
           grp_cols |-> k[3],
           nettonennleistung_inbetriebnahme |-> sql_sum(capacity(g)),
           anzahl_inbetriebnahme |-> Cardinality(g)]
        : k \in {<< geo(r, lvl), r.Inbetriebnahmejahr, grp_cols(r, lvl) >> : r \in tab1} }

\* The columns of results_{tech}_yearly of a row of tab1 that joined no result
null_res ==
    [EinheitMastrNummer |-> NullText, year |-> SqlNull, energy |-> SqlNull,
     cf |-> SqlNull, key_prefix |-> NullText, outfile_postfix |-> SqlNull,
     no_calc_reason |-> NullText]

\* tab1 pvs left join results res on (...), given the pairs << pvs, res >>
\* that satisfy the on clause
left_join(tab1, matches) ==
    {[pvs |-> m[1], res |-> m[2]] : m \in matches}
    \cup {[pvs |-> p, res |-> null_res] :
              p \in {p \in tab1 : \A m \in matches : m[1] # p}}

act_on(pvs, res) ==
    /\ pvs.Inbetriebnahmejahr = res.year
    /\ pvs.EinheitMastrNummer = res.EinheitMastrNummer

\* The rows tmp_agg_act_year_cf is grouped from
act_join(tab1, res) == left_join(tab1, {m \in tab1 \X res : act_on(m[1], m[2])})

\* The join condition with a unit still running in its decommissioning year
run_on_until(pvs, res) ==
    /\ pvs.Inbetriebnahmejahr <= res.year
    /\ res.year <= pvs.Stilllegung_jahr
    /\ pvs.EinheitMastrNummer = res.EinheitMastrNummer

run_on(pvs, res) ==
    /\ pvs.Inbetriebnahmejahr <= res.year
    /\ res.year < pvs.Stilllegung_jahr
    /\ pvs.EinheitMastrNummer = res.EinheitMastrNummer

\* The rows tmp_agg_run_year_cf is grouped from
run_join(tab1, res) ==
    {j \in left_join(tab1, {m \in tab1 \X res : run_on(m[1], m[2])}) :
        j.pvs.Inbetriebnahmejahr # SqlNull /\ j.res.year # SqlNull}

\* The five statistics of a cohort group g of joined rows
cf_y(g) == sql_avg([j \in g |-> num_of(j.res.cf)])
cf_y_power_weighted(g) ==
    power_weighted([j \in g |-> num_of(j.res.cf)],
                   [j \in g |-> num_of(j.pvs.Nettonennleistung)])
avg_cf_y(g) == sql_avg([j \in g |-> j.pvs.avg_cf])
avg_cf_y_power_weighted(g) ==
    power_weighted([j \in g |-> j.pvs.avg_cf],
                   [j \in g |-> num_of(j.pvs.Nettonennleistung)])
energy_y(g) == sql_sum([j \in g |-> num_of(j.res.energy)])

\* tmp_agg_act_year_cf: group by {agg_lvl}, Inbetriebnahmejahr
act_sql(tab1, res, lvl) ==
    { LET g == {j \in act_join(tab1, res) :
                    geo(j.pvs, lvl) = k[1] /\ j.pvs.Inbetriebnahmejahr = k[2]}
      IN  [agg_lvl |-> k[1],
           Inbetriebnahmejahr |-> k[2],
           act_cf_y |-> cf_y(g),
           act_cf_y_power_weighted |-> cf_y_power_weighted(g),
           act_avg_cf_y |-> avg_cf_y(g),
           act_avg_cf_y_power_weighted |-> avg_cf_y_power_weighted(g),
           act_energy_y |-> energy_y(g)]
        : k \in {<< geo(j.pvs, lvl), j.pvs.Inbetriebnahmejahr >> :
                    j \in act_join(tab1, res)} }

\* tmp_agg_run_year_cf: group by {agg_lvl}, year
run_sql(tab1, res, lvl) ==
    { LET g == {j \in run_join(tab1, res) :
                    geo(j.pvs, lvl) = k[1] /\ j.res.year = k[2]}
      IN  [agg_lvl |-> k[1],
           year |-> k[2],
           run_cf_y |-> cf_y(g),
           run_cf_y_power_weighted |-> cf_y_power_weighted(g),
           run_avg_cf_y |-> avg_cf_y(g),
           run_avg_cf_y_power_weighted |-> avg_cf_y_power_weighted(g),
           run_energy_y |-> energy_y(g)]
        : k \in {<< geo(j.pvs, lvl), j.res.year >> : j \in run_join(tab1, res)} }

\* agg_{tech}_{agg_lvl}: select '{tech}' as tech, * from tmp_agg_{tech}
agg_sql(tmp_agg) == {[tech |-> tech] @@ r : r \in tmp_agg}

ActCols == {"act_cf_y", "act_cf_y_power_weighted", "act_avg_cf_y",
            "act_avg_cf_y_power_weighted", "act_energy_y"}
RunCols == {"run_cf_y", "run_cf_y_power_weighted", "run_avg_cf_y",
            "run_avg_cf_y_power_weighted", "run_energy_y"}

\* The row of the sub-select blub for a joined pair; a side that found no
\* partner is all NULL
blub_row(a, r) ==
    [tmp_agg_lvl |-> IF a.agg_lvl # NullText THEN a.agg_lvl ELSE r.agg_lvl,
     tmp_yr |-> IF a.Inbetriebnahmejahr # SqlNull THEN a.Inbetriebnahmejahr ELSE r.year]
    @@ [c \in ActCols |-> a[c]] @@ [c \in RunCols |-> r[c]]

null_act == [agg_lvl |-> NullText, Inbetriebnahmejahr |-> SqlNull]
            @@ [c \in ActCols |-> NullNum]
null_run == [agg_lvl |-> NullText, year |-> SqlNull] @@ [c \in RunCols |-> NullNum]

full_on(a, r) == a.agg_lvl = r.agg_lvl /\ a.Inbetriebnahmejahr = r.year

\* act inner join run: pairs of one cohort only are dropped
blub_inner(act, run) ==
    {blub_row(m[1], m[2]) : m \in {m \in act \X run : full_on(m[1], m[2])}}

\* tmp_agg_act_year_cf act full outer join tmp_agg_run_year_cf run
blub(act, run) ==
    {blub_row(m[1], m[2]) : m \in {m \in act \X run : full_on(m[1], m[2])}}
    \cup {blub_row(a, null_run) : a \in {a \in act : \A r \in run : ~full_on(a, r)}}
    \cup {blub_row(null_act, r) : r \in {r \in run : \A a \in act : ~full_on(a, r)}}

null_blub == [tmp_agg_lvl |-> NullText, tmp_yr |-> SqlNull]
             @@ [c \in ActCols \cup RunCols |-> NullNum]

agg_yr_row(p, b) ==
    [tech |-> tech, yr |-> b.tmp_yr] @@ p @@ [c \in ActCols \cup RunCols |-> b[c]]

\* agg_{tech}_{agg_lvl}_yr: tmp_agg_{tech} pvs left join blub
agg_yr_sql(tmp_agg, act, run) ==
    {agg_yr_row(m[1], m[2]) :
        m \in {m \in tmp_agg \X blub(act, run) : m[1].agg_lvl = m[2].tmp_agg_lvl}}
    \cup {agg_yr_row(p, null_blub) :
             p \in {p \in tmp_agg : \A b \in blub(act, run) : p.agg_lvl # b.tmp_agg_lvl}}

\* Lines 323-345: the two tables every level reads
aggregate_prepare(db, calc, res) ==
    LET t1 == drop_n_create(db.all_res, all_res_sql(res), {"EMastr"}, {})
        db1 == [db EXCEPT !.all_res = t1.table]
        t2 == drop_n_create(db.tab1, tab1_sql(calc, t1.table.rows),
                            {"EinheitMastrNummer"}, {})
        db2 == [db1 EXCEPT !.tab1 = t2.table]
    IN  IF t1.raised # "" THEN [db |-> db1, raised |-> t1.raised]
        ELSE [db |-> db2, raised |-> t2.raised]

\* One iteration of the loop over the aggregation levels, lines 348-469: the
\* tables after it and the error that ended it
aggregate_level(db, res, l) ==
    LET lvl == AggLevels[l]
        tab1 == db.tab1.rows
        t1 == drop_n_create(db.tmp_agg, tmp_agg_sql(tab1, lvl), {"agg_lvl"}, {})
        db1 == [db EXCEPT !.tmp_agg = t1.table]
        t2 == drop_n_create(db.tmp_agg_year, tmp_agg_year_sql(tab1, lvl),
                            {"agg_lvl"}, {"Inbetriebnahmejahr"})
        db2 == [db1 EXCEPT !.tmp_agg_year = t2.table]
        t3 == drop_n_create(db.tmp_agg_act_year_cf, act_sql(tab1, res, lvl),
                            {"agg_lvl"}, {"Inbetriebnahmejahr"})
        db3 == [db2 EXCEPT !.tmp_agg_act_year_cf = t3.table]
        t4 == drop_n_create(db.tmp_agg_run_year_cf, run_sql(tab1, res, lvl),
                            {"agg_lvl"}, {"year"})
        db4 == [db3 EXCEPT !.tmp_agg_run_year_cf = t4.table]
        t5 == drop_n_create(db.agg[l], agg_sql(t1.table.rows), {"agg_lvl"}, {})
        db5 == [db4 EXCEPT !.agg[l] = t5.table]
        t6 == drop_n_create(db.agg_yr[l],
                            agg_yr_sql(t1.table.rows, t3.table.rows, t4.table.rows),
                            {"tech", "agg_lvl"}, {"yr"})
        db6 == [db5 EXCEPT !.agg_yr[l] = t6.table]
    IN  IF t1.raised # "" THEN [db |-> db1, raised |-> t1.raised]
        ELSE IF t2.raised # "" THEN [db |-> db2, raised |-> t2.raised]
        ELSE IF t3.raised # "" THEN [db |-> db3, raised |-> t3.raised]
        ELSE IF t4.raised # "" THEN [db |-> db4, raised |-> t4.raised]
        ELSE IF t5.raised # "" THEN [db |-> db5, raised |-> t5.raised]
        ELSE [db |-> db6, raised |-> t6.raised]

-----------------------------------------------------------------------------
(* Aggregation runs: aggregate(tech), run after run on a unit catalogue and *)
(* a yearly result table that are edited between the runs                   *)

MaxAggRuns == 2

\* Geography columns of a unit: municipality key with centroid, postal code
\* with centroid, federal state
Places ==
    { [Gemeindeschluessel |-> "A", ags_lat |-> 1, ags_lon |-> 1,
       Postleitzahl |-> "P", plz_lat |-> SqlNull, plz_lon |-> SqlNull,
       Bundesland |-> "B"],
      [Gemeindeschluessel |-> "A", ags_lat |-> 2, ags_lon |-> 1,
       Postleitzahl |-> "P", plz_lat |-> SqlNull, plz_lon |-> SqlNull,
       Bundesland |-> "B"],
      [Gemeindeschluessel |-> "A", ags_lat |-> SqlNull, ags_lon |-> SqlNull,
       Postleitzahl |-> "P", plz_lat |-> SqlNull, plz_lon |-> SqlNull,
       Bundesland |-> "B"],
      [Gemeindeschluessel |-> "A", ags_lat |-> 1, ags_lon |-> 1,
       Postleitzahl |-> "P", plz_lat |-> 5, plz_lon |-> 5,
       Bundesland |-> "B"],
      [Gemeindeschluessel |-> NullText, ags_lat |-> SqlNull, ags_lon |-> SqlNull,
       Postleitzahl |-> NullText, plz_lat |-> SqlNull, plz_lon |-> SqlNull,
       Bundesland |-> NullText] }

HomePlace == CHOOSE p \in Places : p.ags_lat = 1 /\ p.plz_lat = SqlNull

AggCaps == {0, 3}
CommissioningDates == {NullDate, << 2019, 6, 1 >>, << 2020, 1, 1 >>}
DecommissioningDates == {NullDate, << 2020, 12, 31 >>}

calc_row(id, place, cap, commissioned, decommissioned) ==
    [EinheitMastrNummer |-> id, Nettonennleistung |-> cap,
     Inbetriebnahmedatum |-> commissioned,
     DatumEndgueltigeStilllegung |-> decommissioned] @@ place

\* Unit catalogues: U1 at the home place, U2 commissioned and never
\* decommissioned at any place
AggCatalogues ==
    { {calc_row("U1", HomePlace, c1, i1, d1), calc_row("U2", p2, c2, i2, NullDate)} :
        c1 \in AggCaps, i1 \in CommissioningDates, d1 \in DecommissioningDates,
        p2 \in Places, c2 \in AggCaps, i2 \in CommissioningDates \ {NullDate} }

\* A yearly result row: a computed one, or the placeholder of a unit without
\* coordinates
yearly_row(id, year, kind) ==
    IF kind = "real"
    THEN create_results_dict(id, year, IF year = 2019 THEN EU ELSE 2 * EU,
                             IF year = 2019 THEN EU \div 2 ELSE EU \div 4, "y", NoReason)
    ELSE create_results_dict(id, year, 0, 0, "y", MissingCoordinates)

AggResultRows ==
    {yearly_row("U1", y, k) : y \in {2019, 2020}, k \in {"real", "placeholder"}}
    \cup {yearly_row("U2", 2020, "real")}

\* Yearly result tables: at most one row per (unit, year)
AggResults ==
    {t \in SUBSET AggResultRows : \A r1, r2 \in t : key_of(r1) = key_of(r2) => r1 = r2}

\* Edits of the inputs between two aggregation runs
AggEdits == {"none", "delete_results", "delete_unit"}

NoPrevAgg == [completed |-> FALSE, db |-> NoAggDb]

AggInit ==
    /\ PipelineIdle
    /\ ExportIdle
    /\ CurveIdle
    /\ tech \in {"wind", "solar"}
    /\ calc_table \in AggCatalogues
    /\ results_yearly \in AggResults
    /\ agg_db = NoAggDb
    /\ agg_pc = "idle"
    /\ agg_lvl = 1
    /\ agg_run = 1
    /\ agg_prev = NoPrevAgg
    /\ agg_changed = FALSE
    /\ error = ""
    /\ conflict_action = "update"
    /\ batch_size = 1
    /\ years = <<2019>>
    /\ save_hourly = FALSE
    /\ curtailment_env = CurtNone
    /\ curtailment = PyNone
    /\ pc = "aggregate"
    /\ updates_hourly = <<>>
    /\ updates_monthly = <<>>
    /\ updates_yearly = <<>>
    /\ ReducerIdle
    /\ BatchIdle

AggUnchanged ==
    UNCHANGED << curve_vars, export_vars, setup_vars, run_vars, pc, curtailment, buffer_vars, history_vars,
                 pipeline_vars, reducer_vars, batch_vars >>

\* aggregate(tech) up to the loop: the per-unit tables
A_Prepare ==
    /\ agg_pc = "idle"
    /\ \E out \in {aggregate_prepare(agg_db, calc_table, results_yearly)} :
           /\ agg_db' = out.db
           /\ IF out.raised # ""
              THEN agg_pc' = "failed" /\ error' = out.raised
              ELSE agg_pc' = "level" /\ UNCHANGED error
    /\ UNCHANGED << calc_table, results_yearly, agg_lvl, agg_run, agg_prev, agg_changed >>
    /\ AggUnchanged

\* One iteration of the loop over the levels; after the last, the table count
A_Level ==
    /\ agg_pc = "level"
    /\ \E out \in {aggregate_level(agg_db, results_yearly, agg_lvl)} :
           /\ agg_db' = out.db
           /\ IF out.raised # ""
              THEN agg_pc' = "failed" /\ error' = out.raised /\ UNCHANGED agg_lvl
              ELSE /\ UNCHANGED error
                   /\ IF agg_lvl < Len(AggLevels)
                      THEN agg_lvl' = agg_lvl + 1 /\ agg_pc' = "level"
                      ELSE agg_pc' = "done" /\ UNCHANGED agg_lvl
    /\ UNCHANGED << calc_table, results_yearly, agg_run, agg_prev, agg_changed >>
    /\ AggUnchanged

\* The inputs are edited, or not, and aggregate(tech) is started again
A_NextRun ==
    /\ agg_pc \in {"done", "failed"}
    /\ agg_run < MaxAggRuns
    /\ \E edit \in AggEdits :
           /\ calc_table' = IF edit = "delete_unit"
                            THEN {c \in calc_table : c.EinheitMastrNummer = "U1"}
                            ELSE calc_table
           /\ results_yearly' = IF edit = "delete_results"
                                THEN {r \in results_yearly : r.year # 2020}
                                ELSE results_yearly
           /\ agg_changed' = (edit # "none")
    /\ agg_prev' = [completed |-> agg_pc = "done", db |-> agg_db]
    /\ agg_run' = agg_run + 1
    /\ agg_lvl' = 1
    /\ agg_pc' = "idle"
    /\ error' = ""
    /\ UNCHANGED agg_db
    /\ AggUnchanged

AggNext == A_Prepare \/ A_Level \/ A_NextRun

SpecAggregate == AggInit /\ [][AggNext]_vars

-----------------------------------------------------------------------------
(* Properties of the aggregation *)

\* Index of the level whose cohort tables are in the database (0: none of
\* this run yet)
agg_level_done ==
    IF agg_pc = "done" THEN Len(AggLevels)
    ELSE IF agg_pc = "level" THEN agg_lvl - 1
    ELSE 0

\* Commissioning and decommissioning year of a unit of the catalogue
commissioning_year(c) == extract_year(c.Inbetriebnahmedatum)
decommissioning_year(c) ==
    IF c.DatumEndgueltigeStilllegung = NullDate THEN 9999
    ELSE extract_year(c.DatumEndgueltigeStilllegung)

\* Whether result row r of unit c is among the rows a cohort is grouped from
joined(cohort, c, r) ==
    \E j \in cohort : j.pvs.EinheitMastrNummer = c.EinheitMastrNummer /\ j.res = r

\* C11: a unit commissioned in year C and decommissioned in year D (9999
\* without a decommissioning date) contributes its result of year Y to the
\* as-running rows exactly when C <= Y < D, and to the as-commissioned rows
\* exactly when Y = C; the cohort table of the level then has the row of
\* (the unit's geography, Y).
C11_CohortMembership ==
    agg_pc \in {"level", "done"} =>
        \A c \in {c \in calc_table : c.Inbetriebnahmedatum # NullDate} :
            \A r \in {r \in results_yearly :
                        r.EinheitMastrNummer = c.EinheitMastrNummer} :
                LET tab1 == agg_db.tab1.rows
                    pvs == CHOOSE p \in tab1 : p.EinheitMastrNummer = c.EinheitMastrNummer
                    running == commissioning_year(c) <= r.year
                               /\ r.year < decommissioning_year(c)
                    commissioned == r.year = commissioning_year(c)
                IN  /\ joined(run_join(tab1, results_yearly), c, r) <=> running
                    /\ joined(act_join(tab1, results_yearly), c, r) <=> commissioned
                    /\ agg_level_done > 0 =>
                        /\ running =>
                             \E row \in agg_db.tmp_agg_run_year_cf.rows :
                                 /\ row.agg_lvl = geo(pvs, AggLevels[agg_level_done])
                                 /\ row.year = r.year
                        /\ commissioned =>
                             \E row \in agg_db.tmp_agg_act_year_cf.rows :
                                 /\ row.agg_lvl = geo(pvs, AggLevels[agg_level_done])
                                 /\ row.Inbetriebnahmejahr = r.year

\* A unit commissioned in 2019 and never decommissioned, with a result of
\* 2020, after a level was aggregated: in as-running 2020, not in
\* as-commissioned 2020
C11_Witness ==
    /\ agg_level_done > 0
    /\ \E c \in calc_table :
           /\ c.Inbetriebnahmedatum # NullDate
           /\ commissioning_year(c) = 2019
           /\ c.DatumEndgueltigeStilllegung = NullDate
           /\ \E r \in results_yearly :
                  /\ r.EinheitMastrNummer = c.EinheitMastrNummer
                  /\ r.year = 2020
                  /\ joined(run_join(agg_db.tab1.rows, results_yearly), c, r)
                  /\ ~joined(act_join(agg_db.tab1.rows, results_yearly), c, r)

RECURSIVE IntSum(_)
IntSum(f) ==
    IF DOMAIN f = {} THEN 0
    ELSE LET x == CHOOSE x \in DOMAIN f : TRUE
         IN  f[x] + IntSum([y \in DOMAIN f \ {x} |-> f[y]])

RECURSIVE IntProduct(_)
IntProduct(f) ==
    IF DOMAIN f = {} THEN 1
    ELSE LET x == CHOOSE x \in DOMAIN f : TRUE
         IN  f[x] * IntProduct([y \in DOMAIN f \ {x} |-> f[y]])

\* x is the capacity-weighted mean of a group with the rated capacities caps:
\* no division by zero, NULL when the capacities sum to zero
weighted_ok(x, caps) ==
    /\ x # DivisionByZero
    /\ IntSum(caps) = 0 => x = NullNum

\* x is the mean of the non-NULL values of vals (NULL when there is none)
mean_ok(x, vals) ==
    LET nn == {i \in DOMAIN vals : vals[i].den # 0}
        L == IntProduct([i \in nn |-> vals[i].den])
    IN  IF nn = {} THEN x = NullNum
        ELSE /\ x.den > 0
             /\ x.num * Cardinality(nn) * L
                    = x.den * IntSum([i \in nn |-> vals[i].num * (L \div vals[i].den)])

\* The rows of tab1 grouped into row of tmp_agg_{tech}
geo_group(row) ==
    {p \in agg_db.tab1.rows :
        /\ geo(p, AggLevels[agg_level_done]) = row.agg_lvl
        /\ grp_cols(p, AggLevels[agg_level_done]) = row.grp_cols}

\* The joined rows grouped into row of tmp_agg_act_year_cf
act_group(row) ==
    {j \in act_join(agg_db.tab1.rows, results_yearly) :
        /\ geo(j.pvs, AggLevels[agg_level_done]) = row.agg_lvl
        /\ j.pvs.Inbetriebnahmejahr = row.Inbetriebnahmejahr}

\* The joined rows grouped into row of tmp_agg_run_year_cf
run_group(row) ==
    {j \in run_join(agg_db.tab1.rows, results_yearly) :
        /\ geo(j.pvs, AggLevels[agg_level_done]) = row.agg_lvl
        /\ j.res.year = row.year}

\* C12: every capacity-weighted mean of aggregate() (geography-only,
\* as-commissioned, as-running; of cf_y and of avg_cf) is NULL when the rated
\* capacities of the group sum to zero, and no division by zero occurs; the
\* unweighted mean of the group is the mean of the group's values.
C12_WeightedMeanNullOnZeroCapacity ==
    agg_level_done > 0 =>
        /\ \A row \in agg_db.tmp_agg.rows :
               LET g == geo_group(row)
               IN  /\ weighted_ok(row.avg_cf_gesamt_power_weighted,
                                  [p \in g |-> p.Nettonennleistung])
                   /\ mean_ok(row.avg_cf_gesamt, [p \in g |-> p.avg_cf])
        /\ \A row \in agg_db.tmp_agg_act_year_cf.rows :
               LET g == act_group(row)
                   caps == [j \in g |-> j.pvs.Nettonennleistung]
               IN  /\ weighted_ok(row.act_cf_y_power_weighted, caps)
                   /\ weighted_ok(row.act_avg_cf_y_power_weighted, caps)
                   /\ mean_ok(row.act_cf_y, [j \in g |-> num_of(j.res.cf)])
                   /\ mean_ok(row.act_avg_cf_y, [j \in g |-> j.pvs.avg_cf])
        /\ \A row \in agg_db.tmp_agg_run_year_cf.rows :
               LET g == run_group(row)
                   caps == [j \in g |-> j.pvs.Nettonennleistung]
               IN  /\ weighted_ok(row.run_cf_y_power_weighted, caps)
                   /\ weighted_ok(row.run_avg_cf_y_power_weighted, caps)
                   /\ mean_ok(row.run_cf_y, [j \in g |-> num_of(j.res.cf)])
                   /\ mean_ok(row.run_avg_cf_y, [j \in g |-> j.pvs.avg_cf])

\* A group of two units of rated capacity 0 with results: the weighted means
\* are NULL, the unweighted mean is a number
C12_Witness ==
    /\ agg_level_done > 0
    /\ \E row \in agg_db.tmp_agg_run_year_cf.rows :
           /\ Cardinality(run_group(row)) = 2
           /\ \A j \in run_group(row) : j.pvs.Nettonennleistung = 0
           /\ row.run_cf_y_power_weighted = NullNum
           /\ row.run_avg_cf_y_power_weighted = NullNum
           /\ row.run_cf_y.den > 0
    /\ \E row \in agg_db.tmp_agg.rows :
           /\ \A p \in geo_group(row) : p.Nettonennleistung = 0
           /\ row.avg_cf_gesamt_power_weighted = NullNum
           /\ row.avg_cf_gesamt.den > 0

\* The (geography, year) pairs of the rows of the two cohort tables
act_keys == {<< a.agg_lvl, a.Inbetriebnahmejahr >> : a \in agg_db.tmp_agg_act_year_cf.rows}
run_keys == {<< r.agg_lvl, r.year >> : r \in agg_db.tmp_agg_run_year_cf.rows}

\* The rows of the year-resolved table of the level just aggregated for a pair
yr_rows(k) ==
    {row \in agg_db.agg_yr[agg_level_done].rows : row.agg_lvl = k[1] /\ row.yr = k[2]}

\* C13: in the year-resolved table every (geography, year) pair with an
\* as-commissioned or an as-running row appears exactly once, with the
\* columns of each cohort that has the pair and NULL in the columns of a
\* cohort that has not.
C13_FullOuterJoinOfCohorts ==
    agg_level_done > 0 =>
        \A k \in act_keys \cup run_keys :
            /\ Cardinality(yr_rows(k)) = 1
            /\ \A row \in yr_rows(k) :
                   /\ IF k \in act_keys
                      THEN \E a \in agg_db.tmp_agg_act_year_cf.rows :
                               /\ << a.agg_lvl, a.Inbetriebnahmejahr >> = k
                               /\ \A c \in ActCols : row[c] = a[c]
                      ELSE \A c \in ActCols : row[c] = NullNum
                   /\ IF k \in run_keys
                      THEN \E r \in agg_db.tmp_agg_run_year_cf.rows :
                               /\ << r.agg_lvl, r.year >> = k
                               /\ \A c \in RunCols : row[c] = r[c]
                      ELSE \A c \in RunCols : row[c] = NullNum

\* A level was aggregated with a pair only the as-running cohort has, a pair
\* only the as-commissioned cohort has and a pair both have
C13_Witness ==
    /\ agg_level_done > 0
    /\ run_keys \ act_keys # {}
    /\ act_keys \ run_keys # {}
    /\ act_keys \cap run_keys # {}
    /\ \E k \in run_keys \ act_keys :
           \E row \in yr_rows(k) : row.run_energy_y # NullNum /\ row.act_cf_y = NullNum

\* The geography values of level l of the units of the catalogue, with the
\* defaults of a missing value
geo_values(l) ==
    {IF AggLevels[l] = "ags" THEN coalesce(c.Gemeindeschluessel, "MISSING")
     ELSE IF AggLevels[l] = "plz" THEN coalesce(c.Postleitzahl, "")
     ELSE coalesce(c.Bundesland, "MISSING") : c \in calc_table}

\* C14: aggregate() completes for every unit catalogue, and then each
\* geography-only table has exactly one row per geography value of its
\* level and each year-resolved table at most one row per (geography value,
\* year), also for units that share a geography value and differ in the
\* centroid coordinates.
C14_AggregateCompletesWithOneRowPerKey ==
    /\ agg_pc # "failed"
    /\ agg_pc = "done" =>
           \A l \in 1..Len(AggLevels) :
               /\ \A g \in geo_values(l) :
                      Cardinality({row \in agg_db.agg[l].rows : row.agg_lvl = g}) = 1
               /\ \A row \in agg_db.agg[l].rows : row.agg_lvl \in geo_values(l)
               /\ \A r1, r2 \in agg_db.agg_yr[l].rows :
                      (r1.agg_lvl = r2.agg_lvl /\ r1.yr = r2.yr) => r1 = r2

\* The rows of tmp_agg_{tech}_all the current unit and result tables give
derived_tab1 == tab1_sql(calc_table, all_res_sql(results_yearly))

\* The rows of agg_{tech}_{agg_lvl} and of agg_{tech}_{agg_lvl}_yr of level l
\* the current unit and result tables give
derived_agg(l) == agg_sql(tmp_agg_sql(derived_tab1, AggLevels[l]))
derived_agg_yr(l) ==
    agg_yr_sql(tmp_agg_sql(derived_tab1, AggLevels[l]),
               act_sql(derived_tab1, results_yearly, AggLevels[l]),
               run_sql(derived_tab1, results_yearly, AggLevels[l]))

\* C20: after a completed aggregation run every aggregate table holds exactly
\* the rows derived from the current unit and result tables, whatever an
\* earlier run wrote; a second run on unchanged inputs gives the same tables.
C20_AggregateTablesOverwritten ==
    agg_pc = "done" =>
        /\ \A l \in 1..Len(AggLevels) :
               /\ agg_db.agg[l] = [exists |-> TRUE, rows |-> derived_agg(l)]
               /\ agg_db.agg_yr[l] = [exists |-> TRUE, rows |-> derived_agg_yr(l)]
        /\ (agg_prev.completed /\ ~agg_changed) =>
               /\ agg_db.agg = agg_prev.db.agg
               /\ agg_db.agg_yr = agg_prev.db.agg_yr

\* A second run completed on edited inputs; a row the first run wrote is gone
C20_Witness ==
    /\ agg_pc = "done"
    /\ agg_run = 2
    /\ agg_prev.completed
    /\ agg_changed
    /\ \E l \in 1..Len(AggLevels) :
           /\ agg_prev.db.agg[l].rows \ agg_db.agg[l].rows # {}
           /\ agg_prev.db.agg_yr[l].rows \ agg_db.agg_yr[l].rows # {}

\* The yearly records that carry computed values: no no_calc_reason
computed_results == {r \in results_yearly : r.no_calc_reason = NoReason}

\* tmp_agg_{tech}_all as the computed records alone give it
computed_tab1 == tab1_sql(calc_table, all_res_sql(computed_results))

\* C28: a placeholder yearly record (one with a no_calc_reason) is not counted
\* as a zero reading by aggregate(): the all-years average capacity factor of
\* every unit, and the as-commissioned and as-running means and energy sums
\* of every geography, are those the computed records alone give.
C28_PlaceholdersNotCounted ==
    agg_pc = "done" =>
        /\ agg_db.tab1.rows = computed_tab1
        /\ \A l \in 1..Len(AggLevels) :
               agg_db.agg_yr[l].rows =
                   agg_yr_sql(tmp_agg_sql(computed_tab1, AggLevels[l]),
                              act_sql(computed_tab1, computed_results, AggLevels[l]),
                              run_sql(computed_tab1, computed_results, AggLevels[l]))

\* The same, where the yearly result table holds no placeholder record
C28_HoldsWithoutPlaceholders ==
    computed_results = results_yearly => C28_PlaceholdersNotCounted

\* x is sum(v * w) / sum(w) with both sums over the members that have a
\* value v and a capacity w, where those capacities sum to more than zero
same_units_ok(x, v, w) ==
    LET d == {i \in DOMAIN v : v[i].den # 0 /\ w[i].den # 0}
        sw == FnSum([i \in d |-> w[i]])
    IN  (d # {} /\ sw.num > 0) =>
            x = sql_div(FnSum([i \in d |-> sql_mul(v[i], w[i])]), sw)

\* C29: every capacity-weighted mean of aggregate() is sum(cf x capacity) /
\* sum(capacity) with both sums over the same units of the group: a unit
\* without a capacity-factor value for the statistic adds its capacity to
\* neither sum.
C29_WeightedMeanOverSameUnits ==
    agg_level_done > 0 =>
        /\ \A row \in agg_db.tmp_agg.rows :
               LET g == geo_group(row)
               IN  same_units_ok(row.avg_cf_gesamt_power_weighted,
                                 [p \in g |-> p.avg_cf], capacity(g))
        /\ \A row \in agg_db.tmp_agg_act_year_cf.rows :
               LET g == act_group(row)
                   caps == [j \in g |-> num_of(j.pvs.Nettonennleistung)]
               IN  /\ same_units_ok(row.act_cf_y_power_weighted,
                                    [j \in g |-> num_of(j.res.cf)], caps)
                   /\ same_units_ok(row.act_avg_cf_y_power_weighted,
                                    [j \in g |-> j.pvs.avg_cf], caps)
        /\ \A row \in agg_db.tmp_agg_run_year_cf.rows :
               LET g == run_group(row)
                   caps == [j \in g |-> num_of(j.pvs.Nettonennleistung)]
               IN  /\ same_units_ok(row.run_cf_y_power_weighted,
                                    [j \in g |-> num_of(j.res.cf)], caps)
                   /\ same_units_ok(row.run_avg_cf_y_power_weighted,
                                    [j \in g |-> j.pvs.avg_cf], caps)

\* The same for the groups in which every unit has a value for the statistic
C29_HoldsWhereEveryUnitHasAValue ==
    agg_level_done > 0 =>
        /\ \A row \in agg_db.tmp_agg.rows :
               LET g == geo_group(row)
               IN  (\A p \in g : p.avg_cf.den # 0) =>
                       same_units_ok(row.avg_cf_gesamt_power_weighted,
                                     [p \in g |-> p.avg_cf], capacity(g))
        /\ \A row \in agg_db.tmp_agg_act_year_cf.rows :
               LET g == act_group(row)
                   caps == [j \in g |-> num_of(j.pvs.Nettonennleistung)]
               IN  /\ (\A j \in g : j.res.cf # SqlNull) =>
                           same_units_ok(row.act_cf_y_power_weighted,
                                         [j \in g |-> num_of(j.res.cf)], caps)
                   /\ (\A j \in g : j.pvs.avg_cf.den # 0) =>
                           same_units_ok(row.act_avg_cf_y_power_weighted,
                                         [j \in g |-> j.pvs.avg_cf], caps)
        /\ \A row \in agg_db.tmp_agg_run_year_cf.rows :
               LET g == run_group(row)
                   caps == [j \in g |-> num_of(j.pvs.Nettonennleistung)]
               IN  /\ same_units_ok(row.run_cf_y_power_weighted,
                                    [j \in g |-> num_of(j.res.cf)], caps)
                   /\ same_units_ok(row.run_avg_cf_y_power_weighted,
                                    [j \in g |-> j.pvs.avg_cf], caps)

\* The units of the catalogue without a commissioning date
undated_units == {c \in calc_table : c.Inbetriebnahmedatum = NullDate}

\* C30: a unit without a commissioning date has commissioning year -1 in
\* tmp_agg_{tech}_all; its result of year Y is among the as-running rows
\* exactly when Y is before its decommissioning year; and after a level the
\* as-commissioned table and the year-resolved table of the level have a row
\* of year -1 for the unit's geography.
C30_UndatedUnitsCommissionedInYearMinusOne ==
    agg_pc \in {"level", "done"} =>
        \A c \in undated_units :
            LET tab1 == agg_db.tab1.rows
                pvs == CHOOSE p \in tab1 : p.EinheitMastrNummer = c.EinheitMastrNummer
                own == {r \in results_yearly :
                            r.EinheitMastrNummer = c.EinheitMastrNummer}
            IN  /\ pvs.Inbetriebnahmejahr = 0 - 1
                /\ \A r \in own :
                       joined(run_join(tab1, results_yearly), c, r)
                           <=> r.year < decommissioning_year(c)
                /\ agg_level_done > 0 =>
                       LET place == geo(pvs, AggLevels[agg_level_done])
                       IN  /\ \A r \in {r \in own : r.year < decommissioning_year(c)} :
                                  \E row \in agg_db.tmp_agg_run_year_cf.rows :
                                      row.agg_lvl = place /\ row.year = r.year
                           /\ \E row \in agg_db.tmp_agg_act_year_cf.rows :
                                  /\ row.agg_lvl = place
                                  /\ row.Inbetriebnahmejahr = 0 - 1
                           /\ \E row \in agg_db.agg_yr[agg_level_done].rows :
                                  row.agg_lvl = place /\ row.yr = 0 - 1

\* A unit without a commissioning date, never decommissioned, with a result
\* of 2020, after a level was aggregated: counted in as-running 2020, and the
\* year-resolved table has the row of year -1
C30_Witness ==
    /\ agg_level_done > 0
    /\ \E c \in undated_units :
           /\ c.DatumEndgueltigeStilllegung = NullDate
           /\ \E r \in results_yearly :
                  /\ r.EinheitMastrNummer = c.EinheitMastrNummer
                  /\ r.year = 2020
                  /\ joined(run_join(agg_db.tab1.rows, results_yearly), c, r)
           /\ \E row \in agg_db.agg_yr[agg_level_done].rows :
                  /\ row.yr = 0 - 1
                  /\ row.agg_lvl = c.Gemeindeschluessel

-----------------------------------------------------------------------------
(* Properties of compute_monthly_statistics and get_curtailment, on the     *)
(* unit and year of SpecReducer                                             *)

\* Days of the calendar months of a year of n samples
DaysInMonths(n) ==
    [k \in 1..12 |->
        IF k = 2 THEN (IF n = 366 * HoursPerDay THEN 29 ELSE 28)
        ELSE << 31, 28, 31, 30, 31, 30, 31, 31, 30, 31, 30, 31 >>[k]]

\* The hourly series the reducers hand to compute_monthly_statistics: the raw
\* power without missing samples
clean_power == [h \in 1..Len(power) |-> NanToNum(Round4(power[h]))]

\* C15: compute_monthly_statistics puts every hour of the year into exactly
\* one of 12 consecutive buckets of 31, 28 (29 for a series of a leap year),
\* 31, 30, ... days; the bucket sizes sum to the length of the series, so the
\* 12 monthly sums add up to the sum over the year.
C15_MonthlyBucketsPartitionYear ==
    pc = "reduced" =>
        \E data \in {clean_power} :
        \E lo \in {[k \in 1..12 |-> month_lo(data, k)]} :
        \E hi \in {[k \in 1..12 |-> month_hi(data, k)]} :
        \E sums \in {compute_monthly_statistics(data, "sum")} :
            /\ Len(data) \in {365 * HoursPerDay, 366 * HoursPerDay}
            /\ \A k \in 1..12 : hi[k] - lo[k] + 1 = DaysInMonths(Len(data))[k] * HoursPerDay
            /\ lo[1] = 1
            /\ \A k \in 1..11 : lo[k + 1] = hi[k] + 1
            /\ hi[12] = Len(data)
            /\ \A h \in 1..Len(data) :
                   Cardinality({k \in 1..12 : lo[k] <= h /\ h <= hi[k]}) = 1
            /\ SumRange(sums, 1, 12) = Round4(SumRange(data, 1, Len(data)))

\* The monthly sums of a leap year's series with power were computed
C15_Witness ==
    /\ pc = "reduced"
    /\ Len(power) = 366 * HoursPerDay
    /\ SumRange(clean_power, 1, Len(power)) > 0
    /\ month_hi(clean_power, 2) - month_lo(clean_power, 2) + 1 = 29 * HoursPerDay
    /\ Len(updates_monthly) = 1
    /\ Len(updates_monthly[1].energy) = 12

\* C16: get_curtailment never raises: "None" gives no curtailment, a
\* fraction c in [0, 1] gives the multiplier 1 - c, every other setting (a
\* number out of range, text that is no number) gives no curtailment and
\* the run goes on.
C16_GetCurtailmentNeverRaises ==
    /\ pc # "failed"
    /\ error = ""
    /\ pc \in {"reduce", "reduced"} =>
           curtailment =
               IF curtailment_env.kind = "num"
                  /\ 0 <= curtailment_env.k /\ curtailment_env.k <= CurtDen
               THEN CurtDen - curtailment_env.k
               ELSE PyNone

-----------------------------------------------------------------------------
(* helpers.py: export_to_csv *)

MaxExportRows == 3    \* rows of the exported result table
MaxExportBatch == 3   \* EXPORT_BATCH_SIZE is 1..MaxExportBatch

ExportYears == {2019, 2020}
ExportUnits == {"U1", "U2", "U3"}

\* One line of a CSV file: the header or a row of the table
HeaderLine == [kind |-> "header", EinheitMastrNummer |-> "", year |-> 0]
row_line(r) == [kind |-> "row", EinheitMastrNummer |-> r.EinheitMastrNummer,
                year |-> r.year]

\* A file left by an earlier export
StaleFile == [exists |-> TRUE,
              lines |-> << HeaderLine, row_line([EinheitMastrNummer |-> "U9", year |-> 2018]) >>]

\* The result tables: rows with distinct (unit, year), in scan order
ExportRows == [EinheitMastrNummer : ExportUnits, year : ExportYears]
ExportTables ==
    UNION { {t \in [1..n -> ExportRows] : \A i, j \in 1..n : i # j => t[i] # t[j]} :
            n \in 0..MaxExportRows }

\* build_query: select all columns, where EinheitMastrNummer in mastr_ids (if
\* any) and year in years
build_query(table, mastr_ids, year) ==
    LET selected(r) ==
            /\ mastr_ids # {} => r.EinheitMastrNummer \in mastr_ids
            /\ r.year = year
    IN  SelectSeq(table, selected)

\* fetch_batch: query.limit(batch_size).offset(current_offset)
fetch_batch(q, size, offset) ==
    SubSeq(q, offset + 1, Min(offset + size, Len(q)))

\* to_csv of a batch with the header written for every batch
write_to_csv_with_header(file, df, offset) ==
    [exists |-> TRUE,
     lines |-> (IF offset = 0 THEN <<>> ELSE file.lines)
               \o << HeaderLine >> \o [i \in 1..Len(df) |-> row_line(df[i])]]

\* write_to_csv: mode "w" with header at offset 0, mode "a" without header
\* otherwise
write_to_csv(file, df, offset) ==
    [exists |-> TRUE,
     lines |-> IF offset = 0
               THEN << HeaderLine >> \o [i \in 1..Len(df) |-> row_line(df[i])]
               ELSE file.lines \o [i \in 1..Len(df) |-> row_line(df[i])]]

ExportInit ==
    /\ PipelineIdle
    /\ ReducerIdle
    /\ BatchIdle
    /\ AggIdle
    /\ CurveIdle
    /\ tech \in {"wind", "solar"}
    /\ years = <<>>
    /\ batch_size = 1
    /\ save_hourly = FALSE
    /\ curtailment_env = CurtNone
    /\ conflict_action = "update"
    /\ pc = "export"
    /\ curtailment = PyNone
    /\ error = ""
    /\ updates_hourly = <<>>
    /\ updates_monthly = <<>>
    /\ updates_yearly = <<>>
    /\ ex_table \in ExportTables
    /\ ex_mastr_ids \in {{}, {"U1", "U2"}, {"U4"}}
    /\ ex_year \in ExportYears
    /\ export_batch_size \in 1..MaxExportBatch
    /\ query = <<>>
    /\ current_offset = 0
    /\ output_file \in {NoFile, StaleFile}
    /\ file_before = output_file
    /\ fetched = <<>>
    /\ ex_pc = "idle"

ExportUnchanged ==
    UNCHANGED << curve_vars, agg_vars, setup_vars, run_vars, pc, curtailment, error, buffer_vars,
                 history_vars, pipeline_vars, reducer_vars, batch_vars >>

\* export_to_csv up to the loop: the query is built, current_offset = 0
X_BuildQuery ==
    /\ ex_pc = "idle"
    /\ query' = build_query(ex_table, ex_mastr_ids, ex_year)
    /\ current_offset' = 0
    /\ ex_pc' = "loop"
    /\ UNCHANGED << ex_table, ex_mastr_ids, ex_year, export_batch_size, output_file,
                    file_before, fetched >>
    /\ ExportUnchanged

\* One pass of `while True`: fetch a batch; leave the loop when it is empty,
\* else write it and advance the offset
X_Batch ==
    /\ ex_pc = "loop"
    /\ \E batch_df \in {fetch_batch(query, export_batch_size, current_offset)} :
          /\ fetched' = Append(fetched, current_offset)
          /\ IF batch_df = <<>>
             THEN /\ ex_pc' = "returned"
                  /\ UNCHANGED << output_file, current_offset >>
             ELSE /\ output_file' = write_to_csv(output_file, batch_df, current_offset)
                  /\ current_offset' = current_offset + export_batch_size
                  /\ UNCHANGED ex_pc
    /\ UNCHANGED << ex_table, ex_mastr_ids, ex_year, export_batch_size, query, file_before >>
    /\ ExportUnchanged

ExportNext == X_BuildQuery \/ X_Batch

\* The loop is not suspended for ever
SpecExport == ExportInit /\ [][ExportNext]_vars /\ WF_vars(ExportNext)

\* Offsets 0, B, 2B, ...: n of them
offsets(n, b) == [i \in 1..n |-> (i - 1) * b]

\* The number of batches that hold rows: n rows in batches of b
batches(n, b) == (n + b - 1) \div b

-----------------------------------------------------------------------------
(* wind.py: WindCalc.get_power, WindCalc.calculate_power *)

CurveLen == 4         \* columns of power_curve_df: wind speeds 1..CurveLen
MaxSpeed == 7         \* v_hh_norm is 0..MaxSpeed

\* The power curves: W at each wind speed, NaN where the curve has no sample,
\* with at least one sample
PowerCurves ==
    {c \in [1..CurveLen -> {NaN, 0, 12, 24}] : \E i \in 1..CurveLen : c[i] # NaN}

\* valid_power_indices: the wind speeds with a sample
wind_speeds_valid(curve) == {i \in 1..Len(curve) : curve[i] # NaN}

\* wind_speed_at_last_power
wind_speed_at_last_power(curve) ==
    CHOOSE i \in wind_speeds_valid(curve) : \A j \in wind_speeds_valid(curve) : j <= i

\* np.nanmax(power_outputs)
nanmax(curve) ==
    CHOOSE m \in {curve[i] : i \in wind_speeds_valid(curve)} :
        \A i \in wind_speeds_valid(curve) : curve[i] <= m

\* np.interp(v, wind_speeds_valid, power_outputs_valid): linear between the
\* neighbouring samples, the first or last sample's power outside of them
interp(v, curve) ==
    LET valid == wind_speeds_valid(curve)
        below == {i \in valid : i <= v}
        above == {i \in valid : i >= v}
    IN  IF below = {} THEN curve[CHOOSE i \in valid : \A j \in valid : i <= j]
        ELSE IF above = {} THEN curve[wind_speed_at_last_power(curve)]
        ELSE LET lo == CHOOSE i \in below : \A j \in below : j <= i
                 hi == CHOOSE i \in above : \A j \in above : i <= j
             IN  IF lo = hi THEN curve[lo]
                 ELSE curve[lo] + ((curve[hi] - curve[lo]) * (v - lo)) \div (hi - lo)

\* WindCalc.get_power: `return 0` at the cut-off, else the pair
get_power(curve, v, cut, flex) ==
    IF cut /\ v > wind_speed_at_last_power(curve) + flex
    THEN [kind |-> "scalar", power |-> 0, power_output_turbine_max |-> PyNone]
    ELSE [kind |-> "pair", power |-> interp(v, curve),
          power_output_turbine_max |-> nanmax(curve)]

GetPowerInit ==
    /\ PipelineIdle
    /\ ReducerIdle
    /\ BatchIdle
    /\ AggIdle
    /\ ExportIdle
    /\ tech = "wind"
    /\ years = <<>>
    /\ batch_size = 1
    /\ save_hourly = FALSE
    /\ curtailment_env = CurtNone
    /\ conflict_action = "update"
    /\ pc = "power"
    /\ curtailment = PyNone
    /\ error = ""
    /\ updates_hourly = <<>>
    /\ updates_monthly = <<>>
    /\ updates_yearly = <<>>
    /\ power_curve \in PowerCurves
    /\ v_hh_norm \in 0..MaxSpeed
    /\ cut_off \in BOOLEAN
    /\ turbine_cut_off_wind_speed_flex \in {0, 1}
    /\ gp_result = NoPower
    /\ gp_pc = "idle"

GetPowerUnchanged ==
    UNCHANGED << export_vars, agg_vars, setup_vars, run_vars, pc, curtailment,
                 buffer_vars, history_vars, pipeline_vars, reducer_vars, batch_vars,
                 power_curve, v_hh_norm, cut_off, turbine_cut_off_wind_speed_flex >>

\* get_power(v_hh_norm, turbine_type, cut_off, turbine_cut_off_wind_speed_flex)
G_GetPower ==
    /\ gp_pc = "idle"
    /\ gp_result' = get_power(power_curve, v_hh_norm, cut_off,
                              turbine_cut_off_wind_speed_flex)
    /\ gp_pc' = "returned"
    /\ UNCHANGED error
    /\ GetPowerUnchanged

\* calculate_power: power, power_output_turbine_max = self.get_power(v_hh_norm,
\* turbine_type), with the defaults cut_off=False and flex 1
G_CalculatePower ==
    /\ gp_pc = "idle"
    /\ \E r \in {get_power(power_curve, v_hh_norm, FALSE, 1)} :
          /\ gp_result' = r
          /\ IF r.kind = "pair"
             THEN gp_pc' = "unpacked" /\ UNCHANGED error
             ELSE gp_pc' = "failed" /\ error' = "TypeError"
    /\ GetPowerUnchanged

GetPowerNext == G_GetPower \/ G_CalculatePower

SpecGetPower == GetPowerInit /\ [][GetPowerNext]_vars

\* C27: get_power returns a pair (power, turbine maximum power) for every
\* input: beyond the last valid sample the power is that sample's power when
\* cut-off is off; with cut-off on and the speed more than the flex margin
\* above the last valid sample's speed the power is 0 and the turbine maximum
\* power is still returned; calculate_power can unpack the result.
C27_GetPowerReturnsPair ==
    /\ gp_pc = "returned"
       => /\ gp_result.kind = "pair"
          /\ gp_result.power_output_turbine_max = nanmax(power_curve)
          /\ (~cut_off /\ v_hh_norm > wind_speed_at_last_power(power_curve))
             => gp_result.power = power_curve[wind_speed_at_last_power(power_curve)]
          /\ (cut_off /\ v_hh_norm > wind_speed_at_last_power(power_curve)
                                      + turbine_cut_off_wind_speed_flex)
             => gp_result.power = 0
    /\ gp_pc # "failed"

====
